---- MODULE Spec2Model ----
(***************************************************************************)
(* A model of the AWS architecture cost estimator: the pricing calculator  *)
(* (calculateAWSCosts), the recommendation rules                           *)
(* (generateCostOptimizationRecommendations) and the UI classifier         *)
(* (getServiceConfiguration).                                              *)
(*                                                                         *)
(* JavaScript values are modelled as tagged records.  Numbers are exact    *)
(* rationals n/d (US dollars, GB, counts), together with NaN and the       *)
(* infinities; binary floating-point rounding is not modelled.             *)
(***************************************************************************)
EXTENDS Integers, Sequences, FiniteSets, TLC

VARIABLES
    services,         \* analysisResult.services handed to calculateAWSCosts
    costs,            \* the CostBreakdown returned by the last calculateAWSCosts
    breakdown,        \* the CostBreakdown handed to the recommendation rules
    recommendations,  \* the list returned by generateCostOptimizationRecommendations
    service,          \* the Service handed to getServiceConfiguration
    config,           \* the configuration returned by getServiceConfiguration
    pc,               \* position of the request: "input", "calculated", ...
    previous,         \* the CostBreakdown an earlier calculateAWSCosts returned
    retryCount,       \* generateDocumentContent: the retryCount argument
    modelCalls,       \* outcomes of the bedrockClient.send calls issued, in order
    sleeps,           \* the delays slept, in ms, in order
    result,           \* what the function under way returned or threw
    documentTypes,    \* req.body.documentTypes of POST /api/generate-documents
    docIndex,         \* the loop index i of POST /api/generate-documents
    generatedDocuments, \* MemStorage.generatedDocuments, in insertion order
    documents,        \* the documents array of the response
    modelResponse,    \* what the model answers to analyzeArchitectureDiagram
    confidence,       \* the confidence analyzeArchitectureDiagram returned
    architectureAnalyses, \* MemStorage.architectureAnalyses, in insertion order
    uploadedFile,     \* whether the uploaded temporary file exists
    httpStatus,       \* the status of the response, 0 before it is sent
    deployments,      \* MemStorage.deployments, in insertion order
    timers,           \* per deployment, which of the three timeouts is pending (0: none)
    polled,           \* per deployment, what DeploymentStatus shows
    documentsQuery,   \* DocumentGeneration: documentsQuery.data
    batches,          \* the generate-documents batches whose records were refetched
    adjustedServices, \* SizingAdjustment: the adjustedServices state
    lastEdit,         \* the last handleServiceUpdate call and the list it started from
    currentStep,      \* Dashboard: the currentStep state
    analysisData,     \* Dashboard: whether analysisData is set
    deploymentData,   \* Dashboard: whether deploymentData is set
    diagramFile,      \* UploadSection: whether its uploadedFile state holds a file
    analysisMutation, \* UploadSection: status of analysisMutation
    deploymentMutation, \* ConfigurationPanel: status of deploymentMutation
    form,             \* ConfigurationPanel: autoDeployEnabled and the two keys
    requests          \* requests sent so far and analyses completed, by kind

calcVars == <<services, costs, breakdown, recommendations, service, config>>
bedrockVars == <<retryCount, modelCalls, sleeps, result>>
documentVars == <<documentTypes, docIndex, generatedDocuments, documents>>
analyzeVars == <<modelResponse, confidence, architectureAnalyses, uploadedFile>>
serverVars == <<bedrockVars, documentVars, analyzeVars, httpStatus>>
deployVars == <<deployments, timers, polled>>
cardVars == <<documentsQuery, batches>>
sizingVars == <<adjustedServices, lastEdit>>
dashVars == <<currentStep, analysisData, deploymentData, diagramFile, analysisMutation,
              deploymentMutation, form, requests>>
clientVars == <<deployVars, cardVars, sizingVars, dashVars>>
\* what the dashboard leaves alone
notDashVars == <<calcVars, pc, previous, serverVars, deployVars, cardVars, sizingVars>>
\* what the deployment routes leave alone
notDeployVars ==
    <<calcVars, pc, previous, bedrockVars, documentVars, analyzeVars, cardVars, sizingVars,
      dashVars>>

vars == <<calcVars, pc, previous, serverVars, clientVars>>

----------------------------------------------------------------------------
(* JavaScript numbers *)

Abs(x) == IF x < 0 THEN -x ELSE x

RECURSIVE GCD(_, _)
GCD(a, b) == IF b = 0 THEN a ELSE GCD(b, a % b)

\* the rational n/d in lowest terms with a positive denominator
Q(n, d) ==
    LET g == GCD(Abs(n), Abs(d))
        sgn == IF d < 0 THEN -1 ELSE 1
    IN  [t |-> "number", n |-> sgn * (n \div g), d |-> sgn * (d \div g)]

N(i) == [t |-> "number", n |-> i, d |-> 1]
NaN == [t |-> "nan", n |-> 0, d |-> 1]
Infinity(sign) == [t |-> "inf", n |-> sign, d |-> 1]
undefined == [t |-> "undefined", n |-> 0, d |-> 1]

Sign(x) == IF x.n > 0 THEN 1 ELSE IF x.n < 0 THEN -1 ELSE 0

\* ToNumber(undefined) is NaN
ToNumber(x) == IF x.t = "undefined" THEN NaN ELSE x

\* a + b
Add(x, y) ==
    LET a == ToNumber(x)
        b == ToNumber(y)
    IN  IF a.t = "nan" \/ b.t = "nan" THEN NaN
        ELSE IF a.t = "inf" /\ b.t = "inf"
             THEN IF a.n = b.n THEN a ELSE NaN
        ELSE IF a.t = "inf" THEN a
        ELSE IF b.t = "inf" THEN b
        ELSE Q(a.n * b.d + b.n * a.d, a.d * b.d)

\* a * b
Mul(x, y) ==
    LET a == ToNumber(x)
        b == ToNumber(y)
    IN  IF a.t = "nan" \/ b.t = "nan" THEN NaN
        ELSE IF a.t = "inf" \/ b.t = "inf"
             THEN IF Sign(a) * Sign(b) = 0 THEN NaN ELSE Infinity(Sign(a) * Sign(b))
        ELSE Q(a.n * b.n, a.d * b.d)

\* a / b
Div(x, y) ==
    LET a == ToNumber(x)
        b == ToNumber(y)
    IN  IF a.t = "nan" \/ b.t = "nan" THEN NaN
        ELSE IF a.t = "inf" /\ b.t = "inf" THEN NaN
        ELSE IF a.t = "inf" THEN Infinity(IF Sign(b) < 0 THEN -a.n ELSE a.n)
        ELSE IF b.t = "inf" THEN N(0)
        ELSE IF b.n = 0
             THEN IF a.n = 0 THEN NaN ELSE Infinity(Sign(a))
        ELSE Q(a.n * b.d, a.d * b.n)

\* a > b; every comparison with NaN is false
Gt(x, y) ==
    LET a == ToNumber(x)
        b == ToNumber(y)
    IN  IF a.t = "nan" \/ b.t = "nan" THEN FALSE
        ELSE IF a.t = "inf" THEN a.n = 1 /\ ~(b.t = "inf" /\ b.n = 1)
        ELSE IF b.t = "inf" THEN b.n = -1
        ELSE a.n * b.d > b.n * a.d

\* truthiness of a number or of undefined: false for undefined, NaN, 0
TruthyNum(x) == x.t = "inf" \/ (x.t = "number" /\ x.n # 0)

\* x || dflt on numbers
OrNum(x, dflt) == IF TruthyNum(x) THEN x ELSE dflt

IsFinite(x) == x.t = "number"

\* String(x) of a number, as a template literal prints it (integers only
\* are printed digit by digit; a fraction is printed as n/d)
NumToString(x) ==
    IF x.t = "undefined" THEN "undefined"
    ELSE IF x.t = "nan" THEN "NaN"
    ELSE IF x.t = "inf" THEN (IF x.n < 0 THEN "-Infinity" ELSE "Infinity")
    ELSE IF x.d = 1 THEN ToString(x.n)
    ELSE ToString(x.n) \o "/" \o ToString(x.d)

----------------------------------------------------------------------------
(* JavaScript strings *)

Str(s) == [t |-> "string", s |-> s]
undefinedStr == [t |-> "undefined", s |-> ""]

\* truthiness of a string or of undefined: false for undefined and ""
TruthyStr(x) == x.t = "string" /\ x.s # ""

OrStr(x, dflt) == IF TruthyStr(x) THEN x.s ELSE dflt

UpperLetters == "ABCDEFGHIJKLMNOPQRSTUVWXYZ"
LowerLetters == "abcdefghijklmnopqrstuvwxyz"

CharAt(s, i) == SubSeq(s, i, i)

\* the position of the one-character string c in letters, or 0
IndexIn(c, letters) ==
    IF \E i \in 1..Len(letters) : CharAt(letters, i) = c
    THEN CHOOSE i \in 1..Len(letters) : CharAt(letters, i) = c
    ELSE 0

UpperChar(c) ==
    LET i == IndexIn(c, LowerLetters) IN IF i = 0 THEN c ELSE CharAt(UpperLetters, i)

LowerChar(c) ==
    LET i == IndexIn(c, UpperLetters) IN IF i = 0 THEN c ELSE CharAt(LowerLetters, i)

RECURSIVE toUpperCase(_)
toUpperCase(s) ==
    IF Len(s) = 0 THEN ""
    ELSE UpperChar(CharAt(s, 1)) \o toUpperCase(SubSeq(s, 2, Len(s)))

RECURSIVE toLowerCase(_)
toLowerCase(s) ==
    IF Len(s) = 0 THEN ""
    ELSE LowerChar(CharAt(s, 1)) \o toLowerCase(SubSeq(s, 2, Len(s)))

\* s.includes(sub)
includes(s, sub) ==
    \E i \in 1..(Len(s) - Len(sub) + 1) : SubSeq(s, i, i + Len(sub) - 1) = sub

----------------------------------------------------------------------------
(* The pricing table and calculateAWSCosts *)

\* the decimal literal n/d
D(n, d) == Q(n, d)

AWS_PRICING ==
    [EC2 |-> [x \in {"t3.micro", "t3.small", "t3.medium", "t3.large", "t3.xlarge",
                     "m5.large", "m5.xlarge", "c5.large", "r5.large"} |->
                 CASE x = "t3.micro"  -> [hourly |-> D(104, 10000),  monthly |-> D(750, 100)]
                   [] x = "t3.small"  -> [hourly |-> D(208, 10000),  monthly |-> D(1518, 100)]
                   [] x = "t3.medium" -> [hourly |-> D(416, 10000),  monthly |-> D(3037, 100)]
                   [] x = "t3.large"  -> [hourly |-> D(832, 10000),  monthly |-> D(6074, 100)]
                   [] x = "t3.xlarge" -> [hourly |-> D(1664, 10000), monthly |-> D(12149, 100)]
                   [] x = "m5.large"  -> [hourly |-> D(96, 1000),    monthly |-> D(7008, 100)]
                   [] x = "m5.xlarge" -> [hourly |-> D(192, 1000),   monthly |-> D(14016, 100)]
                   [] x = "c5.large"  -> [hourly |-> D(85, 1000),    monthly |-> D(6205, 100)]
                   [] x = "r5.large"  -> [hourly |-> D(126, 1000),   monthly |-> D(9198, 100)]],
     RDS |-> [x \in {"db.t3.micro", "db.t3.small", "db.t3.medium", "db.m5.large",
                     "db.r5.large"} |->
                 CASE x = "db.t3.micro"  -> [hourly |-> D(17, 1000),  monthly |-> D(1241, 100)]
                   [] x = "db.t3.small"  -> [hourly |-> D(34, 1000),  monthly |-> D(2482, 100)]
                   [] x = "db.t3.medium" -> [hourly |-> D(68, 1000),  monthly |-> D(4964, 100)]
                   [] x = "db.m5.large"  -> [hourly |-> D(192, 1000), monthly |-> D(14016, 100)]
                   [] x = "db.r5.large"  -> [hourly |-> D(240, 1000), monthly |-> D(17520, 100)]],
     S3 |-> [standard    |-> [per_gb |-> D(23, 1000)],
             standard_ia |-> [per_gb |-> D(125, 10000)],
             glacier     |-> [per_gb |-> D(4, 1000)]],
     CloudFront |-> [monthly_base         |-> N(0),
                     data_transfer_per_gb |-> D(85, 1000),
                     requests_per_10k     |-> D(75, 10000)],
     ALB |-> [hourly |-> D(225, 10000), monthly |-> D(1620, 100), lcu_hourly |-> D(8, 1000)],
     WAF |-> [monthly_base |-> D(500, 100), per_million_requests |-> D(100, 100)],
     NAT_Gateway |-> [hourly |-> D(45, 1000), monthly |-> D(3240, 100),
                      data_processing_per_gb |-> D(45, 1000)],
     EBS |-> [gp3 |-> [per_gb |-> D(8, 100)],
              gp2 |-> [per_gb |-> D(10, 100)],
              io1 |-> [per_gb |-> D(125, 1000)]],
     CloudWatch |-> [basic_monitoring |-> D(350, 100),
                     detailed_monitoring_per_metric |-> D(30, 100)],
     CloudTrail |-> [management_events |-> D(200, 100), data_events_per_100k |-> D(10, 100)],
     SNS |-> [per_1000_notifications |-> D(50, 100)],
     ElastiCache |-> [x \in {"cache.t3.micro", "cache.t3.small"} |->
                 CASE x = "cache.t3.micro" -> [hourly |-> D(17, 1000), monthly |-> D(1241, 100)]
                   [] x = "cache.t3.small" -> [hourly |-> D(34, 1000), monthly |-> D(2482, 100)]],
     ECS |-> [fargate_per_vcpu_hour |-> D(4048, 100000),
              fargate_per_gb_hour   |-> D(4445, 1000000),
              ec2_launch_type       |-> N(0)]]

\* table[instanceType]?.monthly: undefined when the table has no such key
MonthlyOf(table, instanceType) ==
    IF instanceType \in DOMAIN table THEN table[instanceType].monthly ELSE undefined

LineItem(svc, resource, quantity, unit_cost, total_cost) ==
    [service |-> svc, resource |-> resource, quantity |-> quantity,
     unit_cost |-> unit_cost, total_cost |-> total_cost]

\* the object created at the top of calculateAWSCosts
EmptyCosts ==
    [compute |-> N(0), storage |-> N(0), network |-> N(0), database |-> N(0),
     total |-> N(0), details |-> <<>>]

\* costs.details.push(item)
Push(c, item) == [c EXCEPT !.details = Append(@, item)]

\* CaseEC2 with the EBS line pushed before the EC2 line
CaseEC2_EbsFirst(c, s) ==
    LET instanceType == OrStr(s.instance_type, "t3.medium")
        rate == OrNum(MonthlyOf(AWS_PRICING.EC2, instanceType), N(30))
        ec2Cost == Mul(rate, s.count)
        ebsCost == Mul(Mul(s.storage_size, s.count), AWS_PRICING.EBS.gp3.per_gb)
        c1 == IF TruthyNum(s.storage_size)
              THEN Push([c EXCEPT !.storage = Add(@, ebsCost)],
                        LineItem("EBS", NumToString(Mul(s.storage_size, s.count)) \o " GB gp3",
                                 Mul(s.storage_size, s.count), AWS_PRICING.EBS.gp3.per_gb,
                                 ebsCost))
              ELSE c
    IN  Push([c1 EXCEPT !.compute = Add(@, ec2Cost)],
             LineItem("EC2", NumToString(s.count) \o "x " \o instanceType,
                      ToNumber(s.count), rate, ec2Cost))

\* case 'EC2'
CaseEC2(c, s) ==
    LET instanceType == OrStr(s.instance_type, "t3.medium")
        rate == OrNum(MonthlyOf(AWS_PRICING.EC2, instanceType), N(30))
        ec2Cost == Mul(rate, s.count)
        c1 == Push([c EXCEPT !.compute = Add(@, ec2Cost)],
                   LineItem("EC2", NumToString(s.count) \o "x " \o instanceType,
                            ToNumber(s.count), rate, ec2Cost))
        ebsCost == Mul(Mul(s.storage_size, s.count), AWS_PRICING.EBS.gp3.per_gb)
    IN  IF TruthyNum(s.storage_size)
        THEN Push([c1 EXCEPT !.storage = Add(@, ebsCost)],
                  LineItem("EBS", NumToString(Mul(s.storage_size, s.count)) \o " GB gp3",
                           Mul(s.storage_size, s.count), AWS_PRICING.EBS.gp3.per_gb, ebsCost))
        ELSE c1

\* CaseRDS with db.t3.micro as the default instance type
CaseRDS_DefaultMicro(c, s) ==
    LET dbInstanceType == OrStr(s.instance_type, "db.t3.micro")
        rate == OrNum(MonthlyOf(AWS_PRICING.RDS, dbInstanceType), N(50))
        rdsCost == Mul(rate, s.count)
    IN  Push([c EXCEPT !.database = Add(@, rdsCost)],
             LineItem("RDS", NumToString(s.count) \o "x " \o dbInstanceType,
                      ToNumber(s.count), rate, rdsCost))

\* case 'RDS'
CaseRDS(c, s) ==
    LET dbInstanceType == OrStr(s.instance_type, "db.t3.medium")
        rate == OrNum(MonthlyOf(AWS_PRICING.RDS, dbInstanceType), N(50))
        rdsCost == Mul(rate, s.count)
    IN  Push([c EXCEPT !.database = Add(@, rdsCost)],
             LineItem("RDS", NumToString(s.count) \o "x " \o dbInstanceType,
                      ToNumber(s.count), rate, rdsCost))

\* case 'S3'
CaseS3(c, s) ==
    LET s3StorageSize == OrNum(s.storage_size, N(100))
        s3Cost == Mul(s3StorageSize, AWS_PRICING.S3.standard.per_gb)
    IN  Push([c EXCEPT !.storage = Add(@, s3Cost)],
             LineItem("S3", NumToString(s3StorageSize) \o " GB Standard",
                      s3StorageSize, AWS_PRICING.S3.standard.per_gb, s3Cost))

\* CaseALB with the LCU cost charged per load balancer
CaseALB_LcuPerBalancer(c, s) ==
    LET albCost == Mul(AWS_PRICING.ALB.monthly, s.count)
        lcuCost == Mul(Mul(Mul(Mul(AWS_PRICING.ALB.lcu_hourly, N(24)), N(30)), N(2)), s.count)
        totalAlbCost == Add(albCost, lcuCost)
    IN  Push([c EXCEPT !.network = Add(@, totalAlbCost)],
             LineItem("ALB", NumToString(s.count) \o "x Load Balancer + LCUs",
                      ToNumber(s.count),
                      Add(AWS_PRICING.ALB.monthly, Div(lcuCost, s.count)), totalAlbCost))

\* case 'ALB', 'APPLICATION LOAD BALANCER'
CaseALB(c, s) ==
    LET albCost == Mul(AWS_PRICING.ALB.monthly, s.count)
        lcuCost == Mul(Mul(Mul(AWS_PRICING.ALB.lcu_hourly, N(24)), N(30)), N(2))
        totalAlbCost == Add(albCost, lcuCost)
    IN  Push([c EXCEPT !.network = Add(@, totalAlbCost)],
             LineItem("ALB", NumToString(s.count) \o "x Load Balancer + LCUs",
                      ToNumber(s.count),
                      Add(AWS_PRICING.ALB.monthly, Div(lcuCost, s.count)), totalAlbCost))

\* case 'CLOUDFRONT'
CaseCloudFront(c, s) ==
    LET bandwidth == OrNum(s.bandwidth, N(1000))
        cfCost == Add(Mul(bandwidth, AWS_PRICING.CloudFront.data_transfer_per_gb),
                      AWS_PRICING.CloudFront.monthly_base)
    IN  Push([c EXCEPT !.network = Add(@, cfCost)],
             LineItem("CloudFront", NumToString(bandwidth) \o " GB Data Transfer",
                      bandwidth, AWS_PRICING.CloudFront.data_transfer_per_gb, cfCost))

\* CaseWAF with the cost added to compute
CaseWAF_BookedToCompute(c, s) ==
    LET wafCost == Add(AWS_PRICING.WAF.monthly_base, AWS_PRICING.WAF.per_million_requests)
    IN  Push([c EXCEPT !.compute = Add(@, wafCost)],
             LineItem("AWS WAF", "Base + 1M requests", N(1), wafCost, wafCost))

\* case 'WAF', 'AWS WAF'
CaseWAF(c, s) ==
    LET wafCost == Add(AWS_PRICING.WAF.monthly_base, AWS_PRICING.WAF.per_million_requests)
    IN  Push([c EXCEPT !.network = Add(@, wafCost)],
             LineItem("AWS WAF", "Base + 1M requests", N(1), wafCost, wafCost))

\* case 'ECS', 'ELASTIC CONTAINER SERVICE'
CaseECS(c, s) ==
    LET ecsCost == AWS_PRICING.ECS.ec2_launch_type
    IN  Push([c EXCEPT !.compute = Add(@, ecsCost)],
             LineItem("Amazon ECS", "EC2 launch type", ToNumber(s.count), N(0), ecsCost))

\* case 'ELASTICACHE'
CaseElastiCache(c, s) ==
    LET cacheInstanceType == OrStr(s.instance_type, "cache.t3.micro")
        rate == OrNum(MonthlyOf(AWS_PRICING.ElastiCache, cacheInstanceType), D(1241, 100))
        cacheCost == Mul(rate, s.count)
    IN  Push([c EXCEPT !.database = Add(@, cacheCost)],
             LineItem("Amazon ElastiCache", NumToString(s.count) \o "x " \o cacheInstanceType,
                      ToNumber(s.count), rate, cacheCost))

\* case 'CLOUDWATCH'
CaseCloudWatch(c, s) ==
    LET cwCost == AWS_PRICING.CloudWatch.basic_monitoring
    IN  Push([c EXCEPT !.network = Add(@, cwCost)],
             LineItem("Amazon CloudWatch", "Basic monitoring", N(1), cwCost, cwCost))

\* case 'CLOUDTRAIL'
CaseCloudTrail(c, s) ==
    LET ctCost == AWS_PRICING.CloudTrail.management_events
    IN  Push([c EXCEPT !.network = Add(@, ctCost)],
             LineItem("AWS CloudTrail", "Management events", N(1), ctCost, ctCost))

\* CaseSNS charged per count
CaseSNS_PerCount(c, s) ==
    LET snsCost == Mul(AWS_PRICING.SNS.per_1000_notifications, s.count)
    IN  Push([c EXCEPT !.network = Add(@, snsCost)],
             LineItem("Amazon SNS", "1,000 notifications", N(1), snsCost, snsCost))

\* case 'SNS', 'SIMPLE NOTIFICATION SERVICE'
CaseSNS(c, s) ==
    LET snsCost == AWS_PRICING.SNS.per_1000_notifications
    IN  Push([c EXCEPT !.network = Add(@, snsCost)],
             LineItem("Amazon SNS", "1,000 notifications", N(1), snsCost, snsCost))

\* case 'NAT GATEWAY'
CaseNATGateway(c, s) ==
    LET natCost == Mul(AWS_PRICING.NAT_Gateway.monthly, s.count)
        dataProcessing == Mul(OrNum(s.bandwidth, N(500)),
                              AWS_PRICING.NAT_Gateway.data_processing_per_gb)
        totalNatCost == Add(natCost, dataProcessing)
    IN  Push([c EXCEPT !.network = Add(@, totalNatCost)],
             LineItem("NAT Gateway", NumToString(s.count) \o "x NAT Gateway + Data Processing",
                      ToNumber(s.count),
                      Add(AWS_PRICING.NAT_Gateway.monthly, Div(dataProcessing, s.count)),
                      totalNatCost))

\* CaseDefault with the cost added to storage
CaseDefault_BookedToStorage(c, s) ==
    LET genericCost == Mul(s.count, N(25))
    IN  Push([c EXCEPT !.storage = Add(@, genericCost)],
             LineItem(s.name.s, NumToString(s.count) \o "x " \o s.name.s,
                      ToNumber(s.count), N(25), genericCost))

\* CaseDefault with the line labelled by the service's type
CaseDefault_LabelledByType(c, s) ==
    LET genericCost == Mul(s.count, N(25))
    IN  Push([c EXCEPT !.compute = Add(@, genericCost)],
             LineItem(s.type.s, NumToString(s.count) \o "x " \o s.name.s,
                      ToNumber(s.count), N(25), genericCost))

\* default
CaseDefault(c, s) ==
    LET genericCost == Mul(s.count, N(25))
    IN  Push([c EXCEPT !.compute = Add(@, genericCost)],
             LineItem(s.name.s, NumToString(s.count) \o "x " \o s.name.s,
                      ToNumber(s.count), N(25), genericCost))

\* the body of the for loop: switch (service.name.toUpperCase())
SwitchService(c, s) ==
    LET tag == toUpperCase(s.name.s)
    IN  CASE tag = "EC2" -> CaseEC2(c, s)
          [] tag = "RDS" -> CaseRDS(c, s)
          [] tag = "S3" -> CaseS3(c, s)
          [] tag \in {"ALB", "APPLICATION LOAD BALANCER"} -> CaseALB(c, s)
          [] tag = "CLOUDFRONT" -> CaseCloudFront(c, s)
          [] tag \in {"WAF", "AWS WAF"} -> CaseWAF(c, s)
          [] tag \in {"ECS", "ELASTIC CONTAINER SERVICE"} -> CaseECS(c, s)
          [] tag = "ELASTICACHE" -> CaseElastiCache(c, s)
          [] tag = "CLOUDWATCH" -> CaseCloudWatch(c, s)
          [] tag = "CLOUDTRAIL" -> CaseCloudTrail(c, s)
          [] tag \in {"SNS", "SIMPLE NOTIFICATION SERVICE"} -> CaseSNS(c, s)
          [] tag = "NAT GATEWAY" -> CaseNATGateway(c, s)
          [] OTHER -> CaseDefault(c, s)

\* ForEachService with the costs object created anew for every service
RECURSIVE ForEachService_FreshPerService(_, _)
ForEachService_FreshPerService(c, svcs) ==
    IF svcs = <<>> THEN c
    ELSE ForEachService_FreshPerService(SwitchService(EmptyCosts, Head(svcs)), Tail(svcs))

\* the for loop over analysisResult.services, from the first service on
RECURSIVE ForEachService(_, _)
ForEachService(c, svcs) ==
    IF svcs = <<>> THEN c
    ELSE ForEachService(SwitchService(c, Head(svcs)), Tail(svcs))

\* service.name.toUpperCase() is a TypeError when a name is not a string
CalculateThrows(svcs) == \E i \in 1..Len(svcs) : svcs[i].name.t # "string"

\* SumBuckets without the database bucket
SumBuckets_WithoutDatabase(c) == Add(Add(c.compute, c.storage), c.network)

\* costs.total = costs.compute + costs.storage + costs.network + costs.database
SumBuckets(c) == Add(Add(Add(c.compute, c.storage), c.network), c.database)

\* calculateAWSCosts(analysisResult, region), when it returns
calculateAWSCosts(svcs, region) ==
    LET c == ForEachService(EmptyCosts, svcs)
    IN  [c EXCEPT !.total = SumBuckets(c)]

----------------------------------------------------------------------------
(* generateCostOptimizationRecommendations *)

ComputeRecommendations ==
    <<"Consider Reserved Instances for compute resources to save up to 75%",
      "Implement Auto Scaling to optimize instance usage during low traffic periods">>

StorageRecommendations ==
    <<"Use S3 Intelligent Tiering to automatically optimize storage costs",
      "Consider S3 Glacier for long-term archival storage">>

NetworkRecommendations ==
    <<"Optimize data transfer by using CloudFront CDN more effectively",
      "Consider AWS Direct Connect for high-volume data transfer">>

TotalRecommendations ==
    <<"Enable AWS Cost Explorer and set up billing alerts",
      "Consider AWS Savings Plans for additional discounts">>

\* ComputeHeavy with >= in place of >
ComputeHeavy_AtLeast(b) ==
    Gt(b.compute, Mul(b.total, D(6, 10))) \/ b.compute = Mul(b.total, D(6, 10))

\* if (costBreakdown.compute > costBreakdown.total * 0.6)
ComputeHeavy(b) == Gt(b.compute, Mul(b.total, D(6, 10)))

\* if (costBreakdown.storage > costBreakdown.total * 0.3)
\* StorageHeavy with the comparison turned round
StorageHeavy_Below(b) == Gt(Mul(b.total, D(3, 10)), b.storage)

StorageHeavy(b) == Gt(b.storage, Mul(b.total, D(3, 10)))

\* if (costBreakdown.network > costBreakdown.total * 0.25)
NetworkHeavy(b) == Gt(b.network, Mul(b.total, D(25, 100)))

\* if (costBreakdown.total > 500)
TotalHigh(b) == Gt(b.total, N(500))

generateCostOptimizationRecommendations(b) ==
    (IF ComputeHeavy(b) THEN ComputeRecommendations ELSE <<>>)
    \o (IF StorageHeavy(b) THEN StorageRecommendations ELSE <<>>)
    \o (IF NetworkHeavy(b) THEN NetworkRecommendations ELSE <<>>)
    \o (IF TotalHigh(b) THEN TotalRecommendations ELSE <<>>)

----------------------------------------------------------------------------
(* getServiceConfiguration *)

\* the condition of the k-th branch of the if / else-if chain
RuleMatches(k, serviceName, serviceType) ==
    CASE k = 1 -> includes(serviceName, "ec2") \/ includes(serviceName, "elastic compute") \/ includes(serviceType, "compute") \/ includes(serviceType, "server")
      [] k = 2 -> includes(serviceName, "lambda") \/ includes(serviceType, "function")
      [] k = 3 -> includes(serviceName, "ecs") \/ includes(serviceName, "elastic container") \/ includes(serviceType, "container")
      [] k = 4 -> includes(serviceName, "eks") \/ includes(serviceName, "kubernetes")
      [] k = 5 -> includes(serviceName, "batch")
      [] k = 6 -> includes(serviceName, "s3") \/ includes(serviceName, "simple storage") \/ includes(serviceType, "storage")
      [] k = 7 -> includes(serviceName, "ebs") \/ includes(serviceName, "elastic block")
      [] k = 8 -> includes(serviceName, "efs") \/ includes(serviceName, "elastic file")
      [] k = 9 -> includes(serviceName, "fsx")
      [] k = 10 -> includes(serviceName, "rds") \/ includes(serviceName, "relational database") \/ includes(serviceType, "database")
      [] k = 11 -> includes(serviceName, "dynamodb")
      [] k = 12 -> includes(serviceName, "elasticache") \/ includes(serviceType, "cache")
      [] k = 13 -> includes(serviceName, "documentdb")
      [] k = 14 -> includes(serviceName, "redshift")
      [] k = 15 -> includes(serviceName, "vpc") \/ includes(serviceName, "virtual private cloud")
      [] k = 16 -> includes(serviceName, "cloudfront") \/ includes(serviceType, "cdn")
      [] k = 17 -> includes(serviceName, "route 53") \/ includes(serviceName, "route53") \/ includes(serviceType, "dns")
      [] k = 18 -> includes(serviceType, "network") \/ includes(serviceType, "load balancer") \/ includes(serviceName, "load balancer") \/ includes(serviceName, "alb") \/ includes(serviceName, "nlb")
      [] k = 19 -> includes(serviceName, "api gateway") \/ includes(serviceType, "api")
      [] k = 20 -> includes(serviceName, "direct connect")
      [] k = 21 -> includes(serviceName, "simple email service") \/ includes(serviceName, "ses") \/ includes(serviceType, "email") \/ includes(serviceType, "application integration")
      [] k = 22 -> includes(serviceName, "simple notification service") \/ includes(serviceName, "sns") \/ includes(serviceType, "notification")
      [] k = 23 -> includes(serviceName, "simple queue service") \/ includes(serviceName, "sqs") \/ includes(serviceType, "queue")
      [] k = 24 -> includes(serviceName, "eventbridge") \/ includes(serviceName, "event bridge")
      [] k = 25 -> includes(serviceName, "step functions")
      [] k = 26 -> includes(serviceName, "kinesis data streams") \/ includes(serviceName, "kinesis streams")
      [] k = 27 -> includes(serviceName, "kinesis data firehose") \/ includes(serviceName, "kinesis firehose")
      [] k = 28 -> includes(serviceName, "emr") \/ includes(serviceName, "elastic mapreduce")
      [] k = 29 -> includes(serviceName, "athena")
      [] k = 30 -> includes(serviceName, "glue")
      [] k = 31 -> includes(serviceName, "sagemaker")
      [] k = 32 -> includes(serviceName, "comprehend")
      [] k = 33 -> includes(serviceName, "rekognition")
      [] k = 34 -> includes(serviceName, "iam") \/ includes(serviceName, "identity and access")
      [] k = 35 -> includes(serviceName, "cognito")
      [] k = 36 -> includes(serviceName, "kms") \/ includes(serviceName, "key management")
      [] k = 37 -> includes(serviceName, "secrets manager")
      [] k = 38 -> includes(serviceName, "cloudwatch")
      [] k = 39 -> includes(serviceName, "cloudtrail")
      [] k = 40 -> includes(serviceName, "config") /\ ~includes(serviceName, "configuration")
      [] k = 41 -> includes(serviceName, "workspaces")
      [] k = 42 -> includes(serviceName, "appstream")
      [] k = 43 -> includes(serviceName, "backup") /\ ~includes(serviceName, "database")

\* the object the k-th branch returns; 0 is the final return
RuleConfig(k) ==
    CASE k = 1 ->
        [showCount |-> TRUE, showInstanceType |-> TRUE,
         countLabel |-> "EC2 Instances",
         customFields |-> <<[name |-> "os", type |-> "select"], [name |-> "tenancy", type |-> "select"], [name |-> "storage", type |-> "number"]>>,
         description |-> "EC2 pricing includes instance hours, storage, and data transfer."]
      [] k = 2 ->
        [showCount |-> FALSE, showInstanceType |-> FALSE,
         countLabel |-> "Serverless Functions",
         customFields |-> <<[name |-> "invocations", type |-> "number"], [name |-> "memory", type |-> "select"], [name |-> "duration", type |-> "number"]>>,
         description |-> "Lambda pricing is based on invocations, memory allocation, and execution time."]
      [] k = 3 ->
        [showCount |-> TRUE, showInstanceType |-> TRUE,
         countLabel |-> "Container Instances",
         customFields |-> <<[name |-> "launchType", type |-> "select"], [name |-> "cpu", type |-> "number"], [name |-> "memory", type |-> "number"]>>,
         description |-> "ECS pricing depends on launch type - EC2 instances or Fargate serverless containers."]
      [] k = 4 ->
        [showCount |-> TRUE, showInstanceType |-> FALSE,
         countLabel |-> "EKS Clusters",
         customFields |-> <<[name |-> "nodeGroups", type |-> "number"], [name |-> "nodeInstanceType", type |-> "select"], [name |-> "nodesPerGroup", type |-> "number"]>>,
         description |-> "EKS charges per cluster hour plus EC2 instances for worker nodes."]
      [] k = 5 ->
        [showCount |-> FALSE, showInstanceType |-> FALSE,
         countLabel |-> "Batch Service",
         customFields |-> <<[name |-> "jobsPerMonth", type |-> "number"], [name |-> "computeType", type |-> "select"], [name |-> "avgJobDuration", type |-> "number"]>>,
         description |-> "AWS Batch charges for underlying compute resources used by batch jobs."]
      [] k = 6 ->
        [showCount |-> FALSE, showInstanceType |-> FALSE,
         countLabel |-> "Storage Service",
         customFields |-> <<[name |-> "storageGB", type |-> "number"], [name |-> "storageClass", type |-> "select"], [name |-> "requests", type |-> "number"]>>,
         description |-> "S3 pricing is based on storage volume, requests, and data transfer."]
      [] k = 7 ->
        [showCount |-> FALSE, showInstanceType |-> FALSE,
         countLabel |-> "Block Storage",
         customFields |-> <<[name |-> "volumeSize", type |-> "number"], [name |-> "volumeType", type |-> "select"], [name |-> "iops", type |-> "number"]>>,
         description |-> "EBS charges for provisioned storage, IOPS, and throughput."]
      [] k = 8 ->
        [showCount |-> FALSE, showInstanceType |-> FALSE,
         countLabel |-> "File System",
         customFields |-> <<[name |-> "storageGB", type |-> "number"], [name |-> "storageClass", type |-> "select"], [name |-> "throughputMode", type |-> "select"]>>,
         description |-> "EFS pricing is based on storage used and throughput mode."]
      [] k = 9 ->
        [showCount |-> TRUE, showInstanceType |-> FALSE,
         countLabel |-> "FSx File Systems",
         customFields |-> <<[name |-> "fileSystemType", type |-> "select"], [name |-> "storageCapacity", type |-> "number"], [name |-> "throughputCapacity", type |-> "number"]>>,
         description |-> "FSx pricing depends on file system type, storage capacity, and throughput."]
      [] k = 10 ->
        [showCount |-> TRUE, showInstanceType |-> TRUE,
         countLabel |-> "Database Instances",
         customFields |-> <<[name |-> "engine", type |-> "select"], [name |-> "storage", type |-> "number"], [name |-> "multiAZ", type |-> "select"]>>,
         description |-> "RDS pricing includes instance costs, storage, and backup storage."]
      [] k = 11 ->
        [showCount |-> FALSE, showInstanceType |-> FALSE,
         countLabel |-> "NoSQL Database",
         customFields |-> <<[name |-> "readCapacity", type |-> "number"], [name |-> "writeCapacity", type |-> "number"], [name |-> "storageGB", type |-> "number"], [name |-> "billingMode", type |-> "select"]>>,
         description |-> "DynamoDB pricing is based on throughput capacity and storage consumption."]
      [] k = 12 ->
        [showCount |-> TRUE, showInstanceType |-> TRUE,
         countLabel |-> "Cache Nodes",
         customFields |-> <<[name |-> "engine", type |-> "select"], [name |-> "nodeType", type |-> "select"], [name |-> "replicationGroups", type |-> "number"]>>,
         description |-> "ElastiCache pricing is based on cache node hours and data transfer."]
      [] k = 13 ->
        [showCount |-> TRUE, showInstanceType |-> TRUE,
         countLabel |-> "DocumentDB Instances",
         customFields |-> <<[name |-> "storage", type |-> "number"], [name |-> "backupRetention", type |-> "number"], [name |-> "ioRequests", type |-> "number"]>>,
         description |-> "DocumentDB charges for instances, storage, I/O operations, and backup storage."]
      [] k = 14 ->
        [showCount |-> TRUE, showInstanceType |-> TRUE,
         countLabel |-> "Redshift Nodes",
         customFields |-> <<[name |-> "nodeType", type |-> "select"], [name |-> "backupStorage", type |-> "number"], [name |-> "spectrumQueries", type |-> "number"]>>,
         description |-> "Redshift pricing includes node hours, backup storage, and Spectrum queries."]
      [] k = 15 ->
        [showCount |-> FALSE, showInstanceType |-> FALSE,
         countLabel |-> "VPC Configuration",
         customFields |-> <<[name |-> "natGateways", type |-> "number"], [name |-> "dataProcessing", type |-> "number"], [name |-> "vpcEndpoints", type |-> "number"]>>,
         description |-> "VPC charges for NAT Gateways, data processing, and VPC endpoints."]
      [] k = 16 ->
        [showCount |-> FALSE, showInstanceType |-> FALSE,
         countLabel |-> "CDN Service",
         customFields |-> <<[name |-> "dataTransferGB", type |-> "number"], [name |-> "requests", type |-> "number"], [name |-> "priceClass", type |-> "select"]>>,
         description |-> "CloudFront pricing is based on data transfer and requests, not distributions."]
      [] k = 17 ->
        [showCount |-> FALSE, showInstanceType |-> FALSE,
         countLabel |-> "DNS Service",
         customFields |-> <<[name |-> "hostedZones", type |-> "number"], [name |-> "dnsQueries", type |-> "number"], [name |-> "healthChecks", type |-> "number"]>>,
         description |-> "Route 53 charges for hosted zones, DNS queries, and health checks."]
      [] k = 18 ->
        [showCount |-> TRUE, showInstanceType |-> FALSE,
         countLabel |-> "Load Balancers",
         customFields |-> <<[name |-> "lbType", type |-> "select"], [name |-> "dataProcessed", type |-> "number"], [name |-> "newConnections", type |-> "number"]>>,
         description |-> "Load balancer pricing includes fixed hourly cost plus data processing charges."]
      [] k = 19 ->
        [showCount |-> FALSE, showInstanceType |-> FALSE,
         countLabel |-> "API Service",
         customFields |-> <<[name |-> "apiCalls", type |-> "number"], [name |-> "apiType", type |-> "select"], [name |-> "caching", type |-> "select"]>>,
         description |-> "API Gateway pricing is based on API calls and optional caching."]
      [] k = 20 ->
        [showCount |-> TRUE, showInstanceType |-> FALSE,
         countLabel |-> "Direct Connect Ports",
         customFields |-> <<[name |-> "portSpeed", type |-> "select"], [name |-> "dataTransfer", type |-> "number"], [name |-> "virtualInterfaces", type |-> "number"]>>,
         description |-> "Direct Connect charges for port hours, data transfer, and virtual interfaces."]
      [] k = 21 ->
        [showCount |-> FALSE, showInstanceType |-> FALSE,
         countLabel |-> "Email Service",
         customFields |-> <<[name |-> "emailsPerMonth", type |-> "number"], [name |-> "attachmentSize", type |-> "number"], [name |-> "dedicatedIPs", type |-> "number"]>>,
         description |-> "SES pricing is based on emails sent and received, not instance count."]
      [] k = 22 ->
        [showCount |-> FALSE, showInstanceType |-> FALSE,
         countLabel |-> "Notification Service",
         customFields |-> <<[name |-> "notifications", type |-> "number"], [name |-> "sms", type |-> "number"], [name |-> "email", type |-> "number"], [name |-> "mobileNotifications", type |-> "number"]>>,
         description |-> "SNS pricing is based on number of notifications and delivery type."]
      [] k = 23 ->
        [showCount |-> FALSE, showInstanceType |-> FALSE,
         countLabel |-> "Queue Service",
         customFields |-> <<[name |-> "requests", type |-> "number"], [name |-> "queueType", type |-> "select"], [name |-> "messageSize", type |-> "number"]>>,
         description |-> "SQS pricing is based on number of requests, not queue count."]
      [] k = 24 ->
        [showCount |-> FALSE, showInstanceType |-> FALSE,
         countLabel |-> "Event Service",
         customFields |-> <<[name |-> "events", type |-> "number"], [name |-> "customBuses", type |-> "number"], [name |-> "rules", type |-> "number"]>>,
         description |-> "EventBridge charges per published event and custom event buses."]
      [] k = 25 ->
        [showCount |-> FALSE, showInstanceType |-> FALSE,
         countLabel |-> "Workflow Service",
         customFields |-> <<[name |-> "stateTransitions", type |-> "number"], [name |-> "workflowType", type |-> "select"], [name |-> "avgExecutionTime", type |-> "number"]>>,
         description |-> "Step Functions charges for state transitions and workflow execution time."]
      [] k = 26 ->
        [showCount |-> FALSE, showInstanceType |-> FALSE,
         countLabel |-> "Streaming Service",
         customFields |-> <<[name |-> "shards", type |-> "number"], [name |-> "putRecords", type |-> "number"], [name |-> "extendedRetention", type |-> "number"]>>,
         description |-> "Kinesis Data Streams charges for shard hours and PUT/GET requests."]
      [] k = 27 ->
        [showCount |-> FALSE, showInstanceType |-> FALSE,
         countLabel |-> "Data Delivery Service",
         customFields |-> <<[name |-> "dataIngested", type |-> "number"], [name |-> "dataFormat", type |-> "select"], [name |-> "compressionEnabled", type |-> "select"]>>,
         description |-> "Kinesis Data Firehose charges for data ingestion and format conversion."]
      [] k = 28 ->
        [showCount |-> TRUE, showInstanceType |-> TRUE,
         countLabel |-> "EMR Instances",
         customFields |-> <<[name |-> "clusterType", type |-> "select"], [name |-> "applications", type |-> "select"], [name |-> "spotInstances", type |-> "select"]>>,
         description |-> "EMR charges per instance hour plus EC2 instance costs."]
      [] k = 29 ->
        [showCount |-> FALSE, showInstanceType |-> FALSE,
         countLabel |-> "Query Service",
         customFields |-> <<[name |-> "dataScanned", type |-> "number"], [name |-> "queryType", type |-> "select"], [name |-> "compressionRatio", type |-> "select"]>>,
         description |-> "Athena charges per GB of data scanned by queries."]
      [] k = 30 ->
        [showCount |-> FALSE, showInstanceType |-> FALSE,
         countLabel |-> "ETL Service",
         customFields |-> <<[name |-> "dpuHours", type |-> "number"], [name |-> "crawlerRuns", type |-> "number"], [name |-> "dataCatalogRequests", type |-> "number"]>>,
         description |-> "AWS Glue charges for DPU hours, crawler runtime, and Data Catalog requests."]
      [] k = 31 ->
        [showCount |-> TRUE, showInstanceType |-> TRUE,
         countLabel |-> "ML Instances",
         customFields |-> <<[name |-> "notebookHours", type |-> "number"], [name |-> "trainingHours", type |-> "number"], [name |-> "endpointHours", type |-> "number"], [name |-> "storageGB", type |-> "number"]>>,
         description |-> "SageMaker charges for notebook, training, and endpoint instance hours plus storage."]
      [] k = 32 ->
        [showCount |-> FALSE, showInstanceType |-> FALSE,
         countLabel |-> "NLP Service",
         customFields |-> <<[name |-> "textUnits", type |-> "number"], [name |-> "documentClassification", type |-> "number"], [name |-> "entityExtraction", type |-> "number"]>>,
         description |-> "Comprehend charges per text unit processed and analysis requests."]
      [] k = 33 ->
        [showCount |-> FALSE, showInstanceType |-> FALSE,
         countLabel |-> "Image/Video Analysis",
         customFields |-> <<[name |-> "imagesProcessed", type |-> "number"], [name |-> "videoMinutes", type |-> "number"], [name |-> "faceComparison", type |-> "number"]>>,
         description |-> "Rekognition charges per image processed and video analysis minutes."]
      [] k = 34 ->
        [showCount |-> FALSE, showInstanceType |-> FALSE,
         countLabel |-> "Identity Service",
         customFields |-> <<[name |-> "accessAnalyzerFindings", type |-> "number"], [name |-> "policySimulations", type |-> "number"], [name |-> "crossAccountRequests", type |-> "number"]>>,
         description |-> "IAM core features are free; charges apply for additional services like Access Analyzer."]
      [] k = 35 ->
        [showCount |-> FALSE, showInstanceType |-> FALSE,
         countLabel |-> "User Authentication",
         customFields |-> <<[name |-> "monthlyActiveUsers", type |-> "number"], [name |-> "federatedIdentities", type |-> "number"], [name |-> "smsMessages", type |-> "number"]>>,
         description |-> "Cognito charges for monthly active users and SMS messages for MFA."]
      [] k = 36 ->
        [showCount |-> FALSE, showInstanceType |-> FALSE,
         countLabel |-> "Key Management",
         customFields |-> <<[name |-> "customerManagedKeys", type |-> "number"], [name |-> "keyRequests", type |-> "number"], [name |-> "keyRotation", type |-> "select"]>>,
         description |-> "KMS charges per customer managed key per month plus API requests."]
      [] k = 37 ->
        [showCount |-> FALSE, showInstanceType |-> FALSE,
         countLabel |-> "Secrets Management",
         customFields |-> <<[name |-> "secrets", type |-> "number"], [name |-> "apiCalls", type |-> "number"], [name |-> "rotation", type |-> "select"]>>,
         description |-> "Secrets Manager charges per secret per month and per API call."]
      [] k = 38 ->
        [showCount |-> FALSE, showInstanceType |-> FALSE,
         countLabel |-> "Monitoring Service",
         customFields |-> <<[name |-> "customMetrics", type |-> "number"], [name |-> "logDataIngested", type |-> "number"], [name |-> "alarms", type |-> "number"], [name |-> "dashboards", type |-> "number"]>>,
         description |-> "CloudWatch charges for custom metrics, log ingestion, alarms, and dashboards."]
      [] k = 39 ->
        [showCount |-> FALSE, showInstanceType |-> FALSE,
         countLabel |-> "Audit Service",
         customFields |-> <<[name |-> "dataEvents", type |-> "number"], [name |-> "insightEvents", type |-> "number"], [name |-> "trails", type |-> "number"]>>,
         description |-> "CloudTrail first trail is free; charges apply for data events and additional trails."]
      [] k = 40 ->
        [showCount |-> FALSE, showInstanceType |-> FALSE,
         countLabel |-> "Configuration Management",
         customFields |-> <<[name |-> "configItems", type |-> "number"], [name |-> "configRules", type |-> "number"], [name |-> "remediations", type |-> "number"]>>,
         description |-> "AWS Config charges for configuration items recorded and rule evaluations."]
      [] k = 41 ->
        [showCount |-> TRUE, showInstanceType |-> FALSE,
         countLabel |-> "Virtual Desktops",
         customFields |-> <<[name |-> "bundleType", type |-> "select"], [name |-> "billingMode", type |-> "select"], [name |-> "rootVolume", type |-> "number"]>>,
         description |-> "WorkSpaces charges per desktop per month or per hour of usage."]
      [] k = 42 ->
        [showCount |-> TRUE, showInstanceType |-> TRUE,
         countLabel |-> "Streaming Instances",
         customFields |-> <<[name |-> "streamingHours", type |-> "number"], [name |-> "fleetType", type |-> "select"], [name |-> "storageGB", type |-> "number"]>>,
         description |-> "AppStream 2.0 charges for instance hours and user storage."]
      [] k = 43 ->
        [showCount |-> FALSE, showInstanceType |-> FALSE,
         countLabel |-> "Backup Service",
         customFields |-> <<[name |-> "backupStorage", type |-> "number"], [name |-> "restoreRequests", type |-> "number"], [name |-> "crossRegionCopy", type |-> "number"]>>,
         description |-> "AWS Backup charges for backup storage, restore requests, and cross-region transfers."]
      [] k = 0 ->
        [showCount |-> FALSE, showInstanceType |-> FALSE,
         countLabel |-> "Managed Service",
         customFields |-> <<[name |-> "usageMetric", type |-> "text"], [name |-> "monthlyUsage", type |-> "number"]>>,
         description |-> "This is a managed AWS service with usage-based pricing. Configure the primary usage metrics."]

\* the branches, in the order of the chain
Rules == 1..43

\* the chain from its k-th branch on
RECURSIVE IfElseChain(_, _, _)
IfElseChain(k, serviceName, serviceType) ==
    IF k \notin Rules THEN RuleConfig(0)
    ELSE IF RuleMatches(k, serviceName, serviceType) THEN RuleConfig(k)
    ELSE IfElseChain(k + 1, serviceName, serviceType)

\* service.name.toLowerCase() or service.type.toLowerCase() is a TypeError
\* when the field is not a string
ClassifyThrows(svc) == svc.name.t # "string" \/ svc.type.t # "string"

\* getServiceConfiguration without the toLowerCase normalisation
getServiceConfiguration_CaseSensitive(svc) == IfElseChain(1, svc.name.s, svc.type.s)

\* getServiceConfiguration(service), when it returns
getServiceConfiguration(svc) ==
    IfElseChain(1, toLowerCase(svc.name.s), toLowerCase(svc.type.s))

----------------------------------------------------------------------------
(* Inputs *)

\* the largest count of a generated service
MaxCount == 2
\* the longest generated list of services
MaxServices == 2

\* customConfig?: Record<string, string | number>, absent or an object of
\* fields in insertion order
NoCustomConfig == [t |-> "undefined", fields |-> <<>>]
CustomConfig(fields) == [t |-> "object", fields |-> fields]

Service(name, count, instance_type, storage_size, bandwidth) ==
    [name |-> name, type |-> Str("service"), count |-> count,
     instance_type |-> instance_type, storage_size |-> storage_size,
     bandwidth |-> bandwidth, customConfig |-> NoCustomConfig]

\* count: absent, negative, or 1..MaxCount
Counts == {undefined, N(-1)} \cup {N(i) : i \in 1..MaxCount}
\* storage_size and bandwidth in GB: absent, zero or positive
Sizes == {undefined, N(0), N(50)}

\* instance_type: absent, empty, in the family's table, in no table
InstanceTypesOf(name) ==
    {undefinedStr, Str(""), Str("m9.unknown")}
    \cup (CASE name = "EC2" -> {Str("t3.large")}
            [] name = "RDS" -> {Str("db.m5.large")}
            [] name = "ElastiCache" -> {Str("cache.t3.small")})

FlatNames == {"WAF", "aws waf", "ECS", "Elastic Container Service", "CloudWatch",
              "CloudTrail", "SNS", "Simple Notification Service"}
\* names the switch has no case for
UntaggedNames == {"FooBarService", "Lambda", "DynamoDB", "Amazon EC2", "Amazon RDS"}

\* the services priced one at a time
ServiceUniverse ==
    {Service(Str("EC2"), c, it, st, undefined) :
        c \in Counts, it \in InstanceTypesOf("EC2"), st \in Sizes}
    \cup {Service(Str(nm), c, it, undefined, undefined) :
        nm \in {"RDS", "ElastiCache"}, c \in Counts,
        it \in InstanceTypesOf("RDS") \cup InstanceTypesOf("ElastiCache")}
    \cup {Service(Str("ec2"), c, undefinedStr, undefined, undefined) : c \in Counts}
    \cup {Service(Str("S3"), c, undefinedStr, st, undefined) : c \in Counts, st \in Sizes}
    \cup {Service(Str(nm), c, undefinedStr, undefined, bw) :
        nm \in {"CloudFront", "NAT Gateway"}, c \in Counts, bw \in Sizes}
    \cup {Service(Str(nm), c, undefinedStr, undefined, undefined) :
        nm \in {"ALB", "Application Load Balancer"} \cup FlatNames \cup UntaggedNames,
        c \in Counts}
    \cup {Service(Str(nm), c, Str("t3.large"), N(50), N(50)) : nm \in FlatNames, c \in Counts}
    \cup {Service(undefinedStr, N(1), undefinedStr, undefined, undefined)}

\* the services combined into longer lists: every bucket, both signs, NaN
CoreServices ==
    {Service(Str("EC2"), N(1), Str("t3.medium"), N(50), undefined),
     Service(Str("EC2"), N(2), undefinedStr, undefined, undefined),
     Service(Str("RDS"), N(1), undefinedStr, undefined, undefined),
     Service(Str("RDS"), N(-1), Str("m9.unknown"), undefined, undefined),
     Service(Str("S3"), N(1), undefinedStr, N(50), undefined),
     Service(Str("ALB"), N(1), undefinedStr, undefined, undefined),
     Service(Str("CloudFront"), N(1), undefinedStr, undefined, N(50)),
     Service(Str("WAF"), N(1), undefinedStr, undefined, undefined),
     Service(Str("ECS"), N(1), undefinedStr, undefined, undefined),
     Service(Str("FooBarService"), N(2), undefinedStr, undefined, undefined),
     Service(Str("FooBarService"), N(3), undefinedStr, undefined, undefined),
     Service(Str("Lambda"), undefined, undefinedStr, undefined, undefined)}

RECURSIVE ListsOf(_, _)
ListsOf(S, n) ==
    IF n = 0 THEN {<<>>}
    ELSE LET shorter == ListsOf(S, n - 1)
         IN  shorter \cup {Append(l, x) : l \in {m \in shorter : Len(m) = n - 1}, x \in S}

ServiceLists == {<<s>> : s \in ServiceUniverse} \cup ListsOf(CoreServices, MaxServices)

Regions == {"us-east-1", "ap-northeast-1"}

\* type and customConfig of a service as the sizing panel sends it back
TypeVariants == {Str("compute"), undefinedStr}
CustomConfigVariants ==
    {NoCustomConfig,
     CustomConfig(<<[name |-> "storage", value |-> "500"], [name |-> "os", value |-> "Windows"]>>)}

\* svcs with the type and customConfig of at most one service replaced
Variants(svcs) ==
    {svcs} \cup
    {[svcs EXCEPT ![k] = [@ EXCEPT !.type = ty, !.customConfig = cc]] :
        k \in 1..Len(svcs), ty \in TypeVariants, cc \in CustomConfigVariants}

\* bucket amounts in dollars of the breakdowns handed to the rules directly
Amounts == {N(-600), N(0), N(50), N(60), N(90), N(150), N(300), N(600)}

\* breakdowns as calculateAWSCosts builds them: total is the sum of the buckets
BreakdownInputs ==
    {[EmptyCosts EXCEPT !.compute = c, !.storage = s, !.network = n, !.database = d,
                        !.total = SumBuckets([compute |-> c, storage |-> s,
                                              network |-> n, database |-> d])] :
        c \in Amounts, s \in Amounts, n \in Amounts, d \in Amounts}

NoService == Service(Str(""), N(1), undefinedStr, undefined, undefined)
NoConfig == [showCount |-> FALSE, showInstanceType |-> FALSE, countLabel |-> "",
             customFields |-> <<>>, description |-> ""]

NoResult == [kind |-> "none", value |-> ""]
NoResponse == [ok |-> FALSE, value |-> ""]

\* the server before any request: empty storage, no call issued
NoEdit == [index |-> 0, field |-> "", before |-> <<>>]

\* the dashboard as it is mounted
DashboardIdle ==
    /\ currentStep = 1
    /\ analysisData = FALSE
    /\ deploymentData = FALSE
    /\ diagramFile = FALSE
    /\ analysisMutation = "idle"
    /\ deploymentMutation = "idle"
    /\ form = [autoDeployEnabled |-> FALSE, awsAccessKey |-> "", awsSecretKey |-> ""]
    /\ requests = [analysis |-> 0, deployment |-> 0, analysed |-> 0]

\* no deployment, nothing shown by the client
ClientIdle ==
    /\ deployments = <<>>
    /\ timers = <<>>
    /\ polled = <<>>
    /\ documentsQuery = <<>>
    /\ batches = 0
    /\ adjustedServices = <<>>
    /\ lastEdit = NoEdit
    /\ DashboardIdle

ServerIdle ==
    /\ retryCount = 0
    /\ modelCalls = <<>>
    /\ sleeps = <<>>
    /\ result = NoResult
    /\ documentTypes = <<>>
    /\ docIndex = 0
    /\ generatedDocuments = <<>>
    /\ documents = <<>>
    /\ modelResponse = NoResponse
    /\ confidence = undefined
    /\ architectureAnalyses = <<>>
    /\ uploadedFile = FALSE
    /\ httpStatus = 0

----------------------------------------------------------------------------
(* The estimate of POST /api/analyze-architecture: calculateAWSCosts, then
   generateCostOptimizationRecommendations on its result *)

Init ==
    /\ services \in ServiceLists
    /\ costs = EmptyCosts
    /\ breakdown = EmptyCosts
    /\ recommendations = <<>>
    /\ service = NoService
    /\ config = NoConfig
    /\ pc = "input"
    /\ previous = EmptyCosts
    /\ ClientIdle
    /\ ServerIdle

\* const costBreakdown = calculateAWSCosts(analysisResult, region)
Calculate ==
    /\ pc = "input"
    /\ ~CalculateThrows(services)
    /\ \E region \in Regions : costs' = calculateAWSCosts(services, region)
    /\ pc' = "calculated"
    /\ UNCHANGED <<services, breakdown, recommendations, service, config>>
    /\ UNCHANGED <<previous, clientVars, serverVars>>

\* the TypeError of calculateAWSCosts, caught by the handler
CalculateFails ==
    /\ pc = "input"
    /\ CalculateThrows(services)
    /\ pc' = "threw"
    /\ UNCHANGED <<services, costs, breakdown, recommendations, service, config>>
    /\ UNCHANGED <<previous, clientVars, serverVars>>

\* const costRecommendations = generateCostOptimizationRecommendations(costBreakdown)
Recommend ==
    /\ pc = "calculated"
    /\ breakdown' = costs
    /\ recommendations' = generateCostOptimizationRecommendations(costs)
    /\ pc' = "recommended"
    /\ UNCHANGED <<services, costs, service, config>>
    /\ UNCHANGED <<previous, clientVars, serverVars>>

\* a later call of calculateAWSCosts, on services that agree with the earlier
\* ones on name, instance_type, count, storage_size and bandwidth; the caller
\* still holds the earlier result
CalculateAgain ==
    /\ pc = "recommended"
    /\ services' \in Variants(services)
    /\ previous' = costs
    /\ \E region \in Regions : costs' = calculateAWSCosts(services', region)
    /\ pc' = "recalculated"
    /\ UNCHANGED <<breakdown, recommendations, service, config, serverVars, clientVars>>

Next == Calculate \/ CalculateFails \/ Recommend \/ CalculateAgain

Spec == Init /\ [][Next]_vars

----------------------------------------------------------------------------
(* generateCostOptimizationRecommendations applied to a given breakdown *)

InitRecommend ==
    /\ services = <<>>
    /\ costs = EmptyCosts
    /\ breakdown \in BreakdownInputs
    /\ recommendations = <<>>
    /\ service = NoService
    /\ config = NoConfig
    /\ pc = "input"
    /\ previous = EmptyCosts
    /\ ClientIdle
    /\ ServerIdle

RecommendBreakdown ==
    /\ pc = "input"
    /\ recommendations' = generateCostOptimizationRecommendations(breakdown)
    /\ pc' = "recommended"
    /\ UNCHANGED <<services, costs, breakdown, service, config>>
    /\ UNCHANGED <<previous, clientVars, serverVars>>

NextRecommend == RecommendBreakdown

SpecRecommend == InitRecommend /\ [][NextRecommend]_vars

----------------------------------------------------------------------------
(* getServiceConfiguration applied to a given service *)

EC2_INSTANCE_TYPES ==
    <<"t3.nano", "t3.micro", "t3.small", "t3.medium", "t3.large", "t3.xlarge", "t3.2xlarge",
      "m5.large", "m5.xlarge", "m5.2xlarge", "m5.4xlarge", "m5.8xlarge", "m5.12xlarge",
      "c5.large", "c5.xlarge", "c5.2xlarge", "c5.4xlarge", "c5.9xlarge", "c5.18xlarge",
      "r5.large", "r5.xlarge", "r5.2xlarge", "r5.4xlarge", "r5.8xlarge", "r5.12xlarge">>

RDS_INSTANCE_TYPES ==
    <<"db.t3.micro", "db.t3.small", "db.t3.medium", "db.t3.large", "db.t3.xlarge",
      "db.t3.2xlarge", "db.m5.large", "db.m5.xlarge", "db.m5.2xlarge", "db.m5.4xlarge",
      "db.m5.8xlarge", "db.r5.large", "db.r5.xlarge", "db.r5.2xlarge", "db.r5.4xlarge",
      "db.r5.8xlarge">>

\* the options of the instance type select, chosen by service.type alone
getInstanceTypeOptions(serviceType) ==
    IF includes(toLowerCase(serviceType), "ec2") \/ includes(toLowerCase(serviceType), "compute")
    THEN EC2_INSTANCE_TYPES
    ELSE IF includes(toLowerCase(serviceType), "rds")
            \/ includes(toLowerCase(serviceType), "database")
    THEN RDS_INSTANCE_TYPES
    ELSE <<>>

ClassifierNames ==
    {"EC2", "Amazon EC2", "Lambda", "AWS Lambda", "ECS", "Amazon ECS", "EKS", "Batch",
     "S3", "Amazon S3", "EBS", "EFS", "FSx", "RDS", "Amazon RDS", "DynamoDB",
     "Amazon DynamoDB", "ElastiCache", "DocumentDB", "Redshift", "VPC", "CloudFront",
     "Route 53", "ALB", "Application Load Balancer", "API Gateway", "Direct Connect",
     "SES", "SNS", "SQS", "EventBridge", "Step Functions", "Kinesis Data Streams",
     "Kinesis Data Firehose", "EMR", "Athena", "Glue", "SageMaker", "Comprehend",
     "Rekognition", "IAM", "Cognito", "KMS", "Secrets Manager", "CloudWatch",
     "CloudTrail", "AWS Config", "Configuration Recorder", "WorkSpaces", "AppStream",
     "AWS Backup", "Database Backup", "NAT Gateway", "WAF", "FooBarService", ""}

ClassifierTypes ==
    {"", "compute", "Compute", "server", "serverless", "storage", "database", "Database",
     "network", "networking", "container", "cache", "cdn", "dns", "api", "email",
     "notification", "queue", "function", "security", "analytics", "monitoring",
     "application integration", "service"}

ClassifierInputs ==
    {[NoService EXCEPT !.name = Str(nm), !.type = Str(ty)] :
        nm \in ClassifierNames, ty \in ClassifierTypes}
    \cup {[NoService EXCEPT !.name = Str(nm), !.type = undefinedStr] : nm \in ClassifierNames}

InitClassify ==
    /\ services = <<>>
    /\ costs = EmptyCosts
    /\ breakdown = EmptyCosts
    /\ recommendations = <<>>
    /\ service \in ClassifierInputs
    /\ config = NoConfig
    /\ pc = "input"
    /\ previous = EmptyCosts
    /\ ClientIdle
    /\ ServerIdle

\* const config = getServiceConfiguration(service)
Classify ==
    /\ pc = "input"
    /\ ~ClassifyThrows(service)
    /\ config' = getServiceConfiguration(service)
    /\ pc' = "classified"
    /\ UNCHANGED <<services, costs, breakdown, recommendations, service>>
    /\ UNCHANGED <<previous, clientVars, serverVars>>

\* the TypeError of getServiceConfiguration
ClassifyFails ==
    /\ pc = "input"
    /\ ClassifyThrows(service)
    /\ pc' = "threw"
    /\ UNCHANGED <<services, costs, breakdown, recommendations, service, config>>
    /\ UNCHANGED <<previous, clientVars, serverVars>>

NextClassify == Classify \/ ClassifyFails

SpecClassify == InitClassify /\ [][NextClassify]_vars

----------------------------------------------------------------------------
(* generateDocumentContent(analysisResult, costBreakdown, documentType) *)

maxRetries == 3
\* ms
baseDelay == 2000

RECURSIVE Pow2(_)
Pow2(k) == IF k = 0 THEN 1 ELSE 2 * Pow2(k - 1)

DocumentTypeNames == {"pricing", "solution", "deployment", "monitoring"}

\* messages of the errors a model call or a document generation fails with
ErrorMessages ==
    {"ThrottlingException: Rate exceeded",
     "Too many requests, please wait before trying again.",
     "Request failed with status code 429",
     "AccessDeniedException: not authorized",
     "Cannot read properties of undefined (reading '0')"}

\* texts of responseBody.content[0].text
ResponseTexts == {"# Document", ""}

\* what bedrockClient.send and the decoding of its response come to
Succeeds(text) == [ok |-> TRUE, value |-> text]
Fails(message) == [ok |-> FALSE, value |-> message]

\* isThrottlingError without the '429' test
isThrottlingError_Without429(errorMessage) ==
    \/ includes(errorMessage, "ThrottlingException")
    \/ includes(errorMessage, "Too many requests")

isThrottlingError(errorMessage) ==
    \/ includes(errorMessage, "ThrottlingException")
    \/ includes(errorMessage, "Too many requests")
    \/ includes(errorMessage, "429")

\* the document type generateDocumentContent is called with
InitGenerate ==
    /\ services = <<>>
    /\ costs = EmptyCosts
    /\ breakdown = EmptyCosts
    /\ recommendations = <<>>
    /\ service = NoService
    /\ config = NoConfig
    /\ previous = EmptyCosts
    /\ ClientIdle
    /\ retryCount = 0
    /\ modelCalls = <<>>
    /\ sleeps = <<>>
    /\ result = NoResult
    /\ documentTypes \in {<<dt>> : dt \in DocumentTypeNames}
    /\ docIndex = 1
    /\ generatedDocuments = <<>>
    /\ documents = <<>>
    /\ modelResponse = NoResponse
    /\ confidence = undefined
    /\ architectureAnalyses = <<>>
    /\ uploadedFile = FALSE
    /\ httpStatus = 0
    /\ pc = "generate"

\* the try block: the call succeeds; return responseBody.content[0].text || ""
SendSucceeds ==
    /\ pc = "generate"
    /\ \E text \in ResponseTexts :
         /\ modelCalls' = Append(modelCalls, Succeeds(text))
         /\ result' = [kind |-> "text", value |-> IF text # "" THEN text ELSE ""]
    /\ pc' = "returned"
    /\ UNCHANGED <<calcVars, previous, clientVars, retryCount, sleeps, documentVars, analyzeVars,
                   httpStatus>>

\* the catch block, throttled with retries left: sleep, then the recursive call
SendThrottled ==
    /\ pc = "generate"
    /\ \E errorMessage \in ErrorMessages :
         /\ isThrottlingError(errorMessage) /\ retryCount < maxRetries
         /\ modelCalls' = Append(modelCalls, Fails(errorMessage))
    /\ sleeps' = Append(sleeps, baseDelay * Pow2(retryCount))
    /\ retryCount' = retryCount + 1
    /\ UNCHANGED <<calcVars, previous, clientVars, pc, result, documentVars, analyzeVars, httpStatus>>

\* the catch block otherwise: throw new Error(`Failed to generate ...`)
SendFails ==
    /\ pc = "generate"
    /\ \E errorMessage \in ErrorMessages :
         /\ ~(isThrottlingError(errorMessage) /\ retryCount < maxRetries)
         /\ modelCalls' = Append(modelCalls, Fails(errorMessage))
         /\ result' = [kind |-> "error",
                       value |-> "Failed to generate " \o documentTypes[docIndex]
                                 \o " document: " \o errorMessage]
    /\ pc' = "threw"
    /\ UNCHANGED <<calcVars, previous, clientVars, retryCount, sleeps, documentVars, analyzeVars,
                   httpStatus>>

NextGenerate == SendSucceeds \/ SendThrottled \/ SendFails

SpecGenerate == InitGenerate /\ [][NextGenerate]_vars

----------------------------------------------------------------------------
(* POST /api/generate-documents.  docIndex is i + 1: documentTypes[docIndex]
   is the type under way, and modelCalls holds the outcome of every document
   generation the handler has awaited. *)

\* the longest generated documentTypes array
MaxDocuments == 2

\* a stored analysis
Analysis == [id |-> "analysis-1", status |-> "completed"]

\* documentTypes of a request: the four document types and one that is none
RequestedTypes == DocumentTypeNames \cup {"invoice"}

GeneratedDocument(documentType, filePath, status) ==
    [documentType |-> documentType, filePath |-> filePath, status |-> status]

\* the status of the record stored for a failed generation
FailureStatus(errorMessage) ==
    IF includes(errorMessage, "Too many requests")
       \/ includes(errorMessage, "ThrottlingException")
    THEN "rate_limited"
    ELSE "failed"

InitDocuments ==
    /\ services = <<>>
    /\ costs = EmptyCosts
    /\ breakdown = EmptyCosts
    /\ recommendations = <<>>
    /\ service = NoService
    /\ config = NoConfig
    /\ previous = EmptyCosts
    /\ ClientIdle
    /\ retryCount = 0
    /\ modelCalls = <<>>
    /\ sleeps = <<>>
    /\ result = NoResult
    /\ documentTypes \in ListsOf(RequestedTypes, MaxDocuments)
    /\ docIndex = 0
    /\ generatedDocuments = <<>>
    /\ documents = <<>>
    /\ modelResponse = NoResponse
    /\ confidence = undefined
    /\ architectureAnalyses \in {<<>>, <<Analysis>>}
    /\ uploadedFile = FALSE
    /\ httpStatus = 0
    /\ pc = "request"

\* storage.getArchitectureAnalysis(analysisId) finds nothing: 404
AnalysisNotFound ==
    /\ pc = "request"
    /\ architectureAnalyses = <<>>
    /\ httpStatus' = 404
    /\ pc' = "responded"
    /\ UNCHANGED <<calcVars, previous, clientVars, bedrockVars, documentVars, analyzeVars>>

\* const documents = []; for (let i = 0; ...
StartDocuments ==
    /\ pc = "request"
    /\ architectureAnalyses # <<>>
    /\ docIndex' = 1
    /\ documents' = <<>>
    /\ pc' = "loop"
    /\ UNCHANGED <<calcVars, previous, clientVars, bedrockVars, documentTypes, generatedDocuments,
                   analyzeVars, httpStatus>>

\* the 2 second delay before every document but the first
DelayBetweenCalls == IF docIndex > 1 THEN Append(sleeps, 2000) ELSE sleeps

\* one iteration, the document is generated, written and stored
GenerateDocument ==
    /\ pc = "loop" /\ docIndex <= Len(documentTypes)
    /\ documentTypes[docIndex] \in DocumentTypeNames
    /\ sleeps' = DelayBetweenCalls
    /\ modelCalls' = Append(modelCalls, Succeeds(documentTypes[docIndex]))
    /\ LET document == GeneratedDocument(documentTypes[docIndex],
                                         documentTypes[docIndex] \o ".pdf", "generated")
       IN  /\ generatedDocuments' = Append(generatedDocuments, document)
           /\ documents' = Append(documents, document)
    /\ docIndex' = docIndex + 1
    /\ UNCHANGED <<calcVars, previous, clientVars, pc, retryCount, result, documentTypes, analyzeVars,
                   httpStatus>>

\* GenerateDocumentFails with the failure caught outside the loop: 500
GenerateDocumentFails_Aborts ==
    /\ pc = "loop" /\ docIndex <= Len(documentTypes)
    /\ documentTypes[docIndex] \in DocumentTypeNames
    /\ sleeps' = DelayBetweenCalls
    /\ \E message \in ErrorMessages : modelCalls' = Append(modelCalls, Fails(message))
    /\ httpStatus' = 500
    /\ pc' = "responded"
    /\ UNCHANGED <<calcVars, previous, clientVars, retryCount, result, documentVars, analyzeVars>>

\* one iteration, the generation throws: the catch block stores the failure
GenerateDocumentFails ==
    /\ pc = "loop" /\ docIndex <= Len(documentTypes)
    /\ documentTypes[docIndex] \in DocumentTypeNames
    /\ sleeps' = DelayBetweenCalls
    /\ \E message \in ErrorMessages :
         LET errorMessage == "Failed to generate " \o documentTypes[docIndex]
                             \o " document: " \o message
         IN  /\ modelCalls' = Append(modelCalls, Fails(errorMessage))
             /\ generatedDocuments' =
                   Append(generatedDocuments,
                          GeneratedDocument(documentTypes[docIndex], "",
                                            FailureStatus(errorMessage)))
    /\ docIndex' = docIndex + 1
    /\ UNCHANGED <<calcVars, previous, clientVars, pc, retryCount, result, documentTypes, documents,
                   analyzeVars, httpStatus>>

\* one iteration, default: continue
SkipUnknownType ==
    /\ pc = "loop" /\ docIndex <= Len(documentTypes)
    /\ documentTypes[docIndex] \notin DocumentTypeNames
    /\ sleeps' = DelayBetweenCalls
    /\ docIndex' = docIndex + 1
    /\ UNCHANGED <<calcVars, previous, clientVars, pc, retryCount, modelCalls, result, documentTypes,
                   generatedDocuments, documents, analyzeVars, httpStatus>>

\* res.json({ documents })
RespondDocuments ==
    /\ pc = "loop" /\ docIndex > Len(documentTypes)
    /\ httpStatus' = 200
    /\ pc' = "responded"
    /\ UNCHANGED <<calcVars, previous, clientVars, bedrockVars, documentVars, analyzeVars>>

NextDocuments ==
    \/ AnalysisNotFound
    \/ StartDocuments
    \/ GenerateDocument
    \/ GenerateDocumentFails
    \/ SkipUnknownType
    \/ RespondDocuments

SpecDocuments == InitDocuments /\ [][NextDocuments]_vars

----------------------------------------------------------------------------
(* analyzeArchitectureDiagram and POST /api/analyze-architecture.  The model's
   answer is a text; JSON.parse is a table over the JSON texts generated. *)

\* a "services" member of the answer and the value JSON.parse gives it
ServicesMembers ==
    {[text |-> "", value |-> [t |-> "undefined", list |-> <<>>]],
     [text |-> "\"services\": null, ", value |-> [t |-> "null", list |-> <<>>]],
     [text |-> "\"services\": \"EC2\", ", value |-> [t |-> "string", list |-> <<>>]],
     [text |-> "\"services\": {}, ", value |-> [t |-> "object", list |-> <<>>]],
     [text |-> "\"services\": [], ", value |-> [t |-> "array", list |-> <<>>]],
     [text |-> "\"services\": [{\"name\": \"EC2\", \"type\": \"compute\", \"count\": 2}], ",
      value |-> [t |-> "array",
                 list |-> <<[Service(Str("EC2"), N(2), undefinedStr, undefined, undefined)
                               EXCEPT !.type = Str("compute")]>>]],
     [text |-> "\"services\": [{\"type\": \"compute\", \"count\": 1}], ",
      value |-> [t |-> "array",
                 list |-> <<[Service(undefinedStr, N(1), undefinedStr, undefined, undefined)
                               EXCEPT !.type = Str("compute")]>>]]}

\* the member that follows: a confidence, or none
ConfidenceMembers ==
    {[text |-> "\"architecture_patterns\": []", value |-> undefined],
     [text |-> "\"confidence\": 0", value |-> N(0)],
     [text |-> "\"confidence\": 0.25", value |-> D(25, 100)],
     [text |-> "\"confidence\": 0.95", value |-> D(95, 100)],
     [text |-> "\"confidence\": 1", value |-> N(1)],
     [text |-> "\"confidence\": 1.5", value |-> D(15, 10)],
     [text |-> "\"confidence\": -0.5", value |-> D(-5, 10)]}

JsonText(s, c) == "{" \o s.text \o c.text \o "}"

\* responseBody.content[0].text
Contents ==
    {"I could not identify any AWS services in this image.",
     "The diagram shows {EC2, RDS",
     "{\"services\": [], \"confidence\": 0.9} Ask me if {anything} is unclear."}
    \cup {pre \o JsonText(s, c) \o post :
            pre \in {"", "Here is the analysis: "}, post \in {"", " Done."},
            s \in ServicesMembers, c \in ConfidenceMembers}

\* what bedrockClient.send and the decoding of its body come to
ModelResponses ==
    {Succeeds(content) : content \in Contents}
    \cup {Fails(message) : message \in ErrorMessages}

\* the least index from k on where content has the character c, 0 if none
RECURSIVE IndexFrom(_, _, _)
IndexFrom(content, c, k) ==
    IF k > Len(content) THEN 0
    ELSE IF CharAt(content, k) = c THEN k
    ELSE IndexFrom(content, c, k + 1)

\* the greatest index down from k where content has the character c, 0 if none
RECURSIVE LastIndexFrom(_, _, _)
LastIndexFrom(content, c, k) ==
    IF k < 1 THEN 0
    ELSE IF CharAt(content, k) = c THEN k
    ELSE LastIndexFrom(content, c, k - 1)

\* content.match(/\{[\s\S]*\}/): from the first "{" to the last "}" after it
JsonMatch(content) ==
    LET first == IndexFrom(content, "{", 1)
        last == LastIndexFrom(content, "}", Len(content))
    IN  IF first > 0 /\ last > first
        THEN [found |-> TRUE, text |-> SubSeq(content, first, last)]
        ELSE [found |-> FALSE, text |-> ""]

\* JSON.parse(text): the object, or a SyntaxError
JSONParse(text) ==
    LET members == {m \in ServicesMembers \X ConfidenceMembers :
                       JsonText(m[1], m[2]) = text}
    IN  IF members = {}
        THEN [ok |-> FALSE, services |-> [t |-> "undefined", list |-> <<>>],
              confidence |-> undefined]
        ELSE LET m == CHOOSE m \in members : TRUE
             IN  [ok |-> TRUE, services |-> m[1].value, confidence |-> m[2].value]

\* Math.min and Math.max of two numbers: NaN if either is NaN
MathMin(x, y) ==
    IF ToNumber(x).t = "nan" \/ ToNumber(y).t = "nan" THEN NaN
    ELSE IF Gt(x, y) THEN y ELSE x
MathMax(x, y) ==
    IF ToNumber(x).t = "nan" \/ ToNumber(y).t = "nan" THEN NaN
    ELSE IF Gt(y, x) THEN y ELSE x

\* Math.max(0, Math.min(1, result.confidence || 0.5))
ClampConfidence(reported) == MathMax(N(0), MathMin(N(1), OrNum(reported, D(5, 10))))

\* ValidServices without the Array.isArray test
ValidServices_Truthy(value) == value.t \notin {"undefined", "null"}

\* !result.services || !Array.isArray(result.services) is false
ValidServices(value) == value.t \notin {"undefined", "null"} /\ value.t = "array"

\* the outcome of the try block of analyzeArchitectureDiagram
AnalysisOf(response) ==
    IF ~response.ok THEN Fails(response.value)
    ELSE LET jsonMatch == JsonMatch(response.value)
             parsed == JSONParse(jsonMatch.text)
         IN  IF ~jsonMatch.found THEN Fails("No JSON found in response")
             ELSE IF ~parsed.ok THEN Fails("Unexpected token in JSON")
             ELSE IF ~ValidServices(parsed.services)
                  THEN Fails("Invalid analysis result: missing services array")
             ELSE Succeeds("")

InitAnalyze ==
    /\ services = <<>>
    /\ costs = EmptyCosts
    /\ breakdown = EmptyCosts
    /\ recommendations = <<>>
    /\ service = NoService
    /\ config = NoConfig
    /\ previous = EmptyCosts
    /\ ClientIdle
    /\ retryCount = 0
    /\ modelCalls = <<>>
    /\ sleeps = <<>>
    /\ result = NoResult
    /\ documentTypes = <<>>
    /\ docIndex = 0
    /\ generatedDocuments = <<>>
    /\ documents = <<>>
    /\ modelResponse \in ModelResponses
    /\ confidence = undefined
    /\ architectureAnalyses = <<>>
    /\ uploadedFile \in BOOLEAN
    /\ httpStatus = 0
    /\ pc = "uploaded"

\* if (!req.file) return res.status(400)
NoFileUploaded ==
    /\ pc = "uploaded"
    /\ ~uploadedFile
    /\ httpStatus' = 400
    /\ pc' = "responded"
    /\ UNCHANGED <<calcVars, previous, clientVars, bedrockVars, documentVars, analyzeVars>>

\* analyzeArchitectureDiagram returns the analysis
AnalyzeDiagram ==
    /\ pc = "uploaded"
    /\ uploadedFile
    /\ AnalysisOf(modelResponse).ok
    /\ modelCalls' = Append(modelCalls, modelResponse)
    /\ LET parsed == JSONParse(JsonMatch(modelResponse.value).text)
       IN  /\ services' = parsed.services.list
           /\ confidence' = ClampConfidence(parsed.confidence)
    /\ pc' = "input"
    /\ UNCHANGED <<costs, breakdown, recommendations, service, config, previous, clientVars,
                   retryCount, sleeps, result, documentVars, modelResponse,
                   architectureAnalyses, uploadedFile, httpStatus>>

\* analyzeArchitectureDiagram throws from its catch block
AnalyzeDiagramFails ==
    /\ pc = "uploaded"
    /\ uploadedFile
    /\ ~AnalysisOf(modelResponse).ok
    /\ modelCalls' = Append(modelCalls, modelResponse)
    /\ result' = [kind |-> "error",
                  value |-> "Failed to analyze architecture diagram: "
                            \o AnalysisOf(modelResponse).value]
    /\ pc' = "threw"
    /\ UNCHANGED <<calcVars, previous, clientVars, retryCount, sleeps, documentVars, analyzeVars,
                   httpStatus>>

\* storage.createArchitectureAnalysis, fs.unlinkSync, res.json
StoreAndRespond ==
    /\ pc = "recommended"
    /\ architectureAnalyses' = Append(architectureAnalyses, Analysis)
    /\ uploadedFile' = FALSE
    /\ httpStatus' = 200
    /\ pc' = "responded"
    /\ UNCHANGED <<calcVars, previous, clientVars, bedrockVars, documentVars, modelResponse,
                   confidence>>

\* the handler's catch block: fs.unlinkSync, res.status(500)
RespondFailure ==
    /\ pc = "threw"
    /\ uploadedFile' = FALSE
    /\ httpStatus' = 500
    /\ pc' = "responded"
    /\ UNCHANGED <<calcVars, previous, clientVars, bedrockVars, documentVars, modelResponse,
                   confidence, architectureAnalyses>>

NextAnalyze ==
    \/ NoFileUploaded
    \/ AnalyzeDiagram
    \/ AnalyzeDiagramFails
    \/ Calculate
    \/ CalculateFails
    \/ Recommend
    \/ StoreAndRespond
    \/ RespondFailure

SpecAnalyze == InitAnalyze /\ [][NextAnalyze]_vars

----------------------------------------------------------------------------
(* Vocabulary of the properties of calculateAWSCosts *)

\* calculateAWSCosts has returned a breakdown for services
Returned == pc \in {"calculated", "recommended"}

\* the literal tags of the switch
CalculatorTags ==
    {"EC2", "RDS", "S3", "ALB", "APPLICATION LOAD BALANCER", "CLOUDFRONT", "WAF", "AWS WAF",
     "ECS", "ELASTIC CONTAINER SERVICE", "ELASTICACHE", "CLOUDWATCH", "CLOUDTRAIL", "SNS",
     "SIMPLE NOTIFICATION SERVICE", "NAT GATEWAY"}

TagOf(s) == toUpperCase(s.name.s)

\* count is a number n >= 1
CountAtLeastOne(s) == s.count.t = "number" /\ s.count.n >= s.count.d

\* the bucket the spec assigns to the line of a service with this tag
BucketOfTag(tag) ==
    CASE tag \in {"EC2", "ECS", "ELASTIC CONTAINER SERVICE"} -> "compute"
      [] tag = "S3" -> "storage"
      [] tag \in {"ALB", "APPLICATION LOAD BALANCER", "CLOUDFRONT", "WAF", "AWS WAF",
                  "NAT GATEWAY", "CLOUDWATCH", "CLOUDTRAIL", "SNS",
                  "SIMPLE NOTIFICATION SERVICE"} -> "network"
      [] tag \in {"RDS", "ELASTICACHE"} -> "database"
      [] OTHER -> "compute"

\* the service label the spec's line item of a service carries
LabelOfTag(s) ==
    LET tag == TagOf(s)
    IN  CASE tag = "EC2" -> "EC2"
          [] tag = "RDS" -> "RDS"
          [] tag = "S3" -> "S3"
          [] tag \in {"ALB", "APPLICATION LOAD BALANCER"} -> "ALB"
          [] tag = "CLOUDFRONT" -> "CloudFront"
          [] tag \in {"WAF", "AWS WAF"} -> "AWS WAF"
          [] tag \in {"ECS", "ELASTIC CONTAINER SERVICE"} -> "Amazon ECS"
          [] tag = "ELASTICACHE" -> "Amazon ElastiCache"
          [] tag = "CLOUDWATCH" -> "Amazon CloudWatch"
          [] tag = "CLOUDTRAIL" -> "AWS CloudTrail"
          [] tag \in {"SNS", "SIMPLE NOTIFICATION SERVICE"} -> "Amazon SNS"
          [] tag = "NAT GATEWAY" -> "NAT Gateway"
          [] OTHER -> s.name.s

\* an EC2 service has an EBS line: when storage_size is present (the spec's
\* wording), or when storage_size is present and not zero
EbsWhenPresent(s) == TagOf(s) = "EC2" /\ s.storage_size.t # "undefined"
EbsWhenNonZero(s) == TagOf(s) = "EC2" /\ s.storage_size.t = "number" /\ s.storage_size.n # 0

\* the expected owner of every line item, in order: the index of the service
\* and whether the line is its EBS line
RECURSIVE OwnersWhenPresent(_, _)
OwnersWhenPresent(svcs, i) ==
    IF i > Len(svcs) THEN <<>>
    ELSE <<[i |-> i, ebs |-> FALSE]>>
         \o (IF EbsWhenPresent(svcs[i]) THEN <<[i |-> i, ebs |-> TRUE]>> ELSE <<>>)
         \o OwnersWhenPresent(svcs, i + 1)

RECURSIVE OwnersWhenNonZero(_, _)
OwnersWhenNonZero(svcs, i) ==
    IF i > Len(svcs) THEN <<>>
    ELSE <<[i |-> i, ebs |-> FALSE]>>
         \o (IF EbsWhenNonZero(svcs[i]) THEN <<[i |-> i, ebs |-> TRUE]>> ELSE <<>>)
         \o OwnersWhenNonZero(svcs, i + 1)

\* the line items are those of owners, in order, each with the label of its
\* branch, and every EBS line costs storage_size * count * gp3_per_gb
DetailsFollow(owners) ==
    /\ Len(costs.details) = Len(owners)
    /\ \A k \in 1..Len(owners) :
         LET s == services[owners[k].i]
             item == costs.details[k]
         IN  IF owners[k].ebs
             THEN /\ item.service = "EBS"
                  /\ item.total_cost = Mul(Mul(s.storage_size, s.count), D(8, 100))
             ELSE item.service = LabelOfTag(s)

\* the bucket the spec assigns to the k-th line
BucketOfLine(owners, k) ==
    IF owners[k].ebs THEN "storage" ELSE BucketOfTag(TagOf(services[owners[k].i]))

\* the sum of total_cost over the lines k..Len(details) that the spec assigns to bucket
RECURSIVE SumOfLines(_, _, _)
SumOfLines(owners, bucket, k) ==
    IF k > Len(costs.details) THEN N(0)
    ELSE Add(IF BucketOfLine(owners, k) = bucket THEN costs.details[k].total_cost ELSE N(0),
             SumOfLines(owners, bucket, k + 1))

RECURSIVE SumOfAllLines(_)
SumOfAllLines(k) ==
    IF k > Len(costs.details) THEN N(0)
    ELSE Add(costs.details[k].total_cost, SumOfAllLines(k + 1))

----------------------------------------------------------------------------
(* C1: every breakdown calculateAWSCosts returns has
   total = compute + storage + network + database (and total is NaN exactly
   when that sum is NaN). *)
C1_TotalIsSumOfBuckets ==
    Returned =>
        costs.total = Add(Add(Add(costs.compute, costs.storage), costs.network),
                          costs.database)

\* a returned breakdown with three non-zero buckets and a finite total
C1_Witness ==
    /\ Returned
    /\ IsFinite(costs.total)
    /\ costs.compute # N(0) /\ costs.storage # N(0) /\ costs.database # N(0)

(* C2: a service whose upper-cased name is none of the switch's tags and whose
   count is n >= 1 gets exactly one line item, labelled with its name, with
   quantity n, unit_cost 25 and total_cost 25 * n; priced alone, it puts 25 * n
   into compute and nothing into storage, network or database. *)
C2_UntaggedServiceIsFlat25 ==
    Returned =>
        LET owners == OwnersWhenNonZero(services, 1)
        IN  /\ \A i \in 1..Len(services) :
                 LET s == services[i]
                     lines == {k \in 1..Len(costs.details) :
                                  k <= Len(owners) /\ owners[k].i = i}
                 IN  (TagOf(s) \notin CalculatorTags /\ CountAtLeastOne(s)) =>
                        /\ Cardinality(lines) = 1
                        /\ \A k \in lines :
                             /\ costs.details[k].service = s.name.s
                             /\ costs.details[k].quantity = s.count
                             /\ costs.details[k].unit_cost = N(25)
                             /\ costs.details[k].total_cost = N(25 * s.count.n)
            /\ (/\ Len(services) = 1
                /\ TagOf(services[1]) \notin CalculatorTags
                /\ CountAtLeastOne(services[1])) =>
                    /\ Len(costs.details) = 1
                    /\ costs.compute = N(25 * services[1].count.n)
                    /\ costs.storage = N(0)
                    /\ costs.network = N(0)
                    /\ costs.database = N(0)

\* "FooBarService" with count 3, priced alone: 75 in compute
C2_Witness ==
    /\ Returned
    /\ Len(services) = 1
    /\ services[1].name = Str("FooBarService")
    /\ services[1].count = N(3)
    /\ costs.compute = N(75)

----------------------------------------------------------------------------
(* Vocabulary of C3: the instance families *)

InstanceTags == {"EC2", "RDS", "ELASTICACHE"}

FamilyTable(tag) ==
    CASE tag = "EC2" -> AWS_PRICING.EC2
      [] tag = "RDS" -> AWS_PRICING.RDS
      [] tag = "ELASTICACHE" -> AWS_PRICING.ElastiCache

FamilyDefault(tag) ==
    CASE tag = "EC2" -> "t3.medium"
      [] tag = "RDS" -> "db.t3.medium"
      [] tag = "ELASTICACHE" -> "cache.t3.micro"

FamilyFallback(tag) ==
    CASE tag = "EC2" -> N(30)
      [] tag = "RDS" -> N(50)
      [] tag = "ELASTICACHE" -> D(1241, 100)

\* the rate as the spec words it: the default's rate when instance_type is
\* absent (or, with emptyIsAbsent, the empty string), the table's rate when it
\* is in the table, the fallback otherwise
ExpectedRate(s, emptyIsAbsent) ==
    LET tag == TagOf(s)
    IN  IF s.instance_type.t = "undefined" \/ (emptyIsAbsent /\ s.instance_type.s = "")
        THEN FamilyTable(tag)[FamilyDefault(tag)].monthly
        ELSE IF s.instance_type.s \in DOMAIN FamilyTable(tag)
        THEN FamilyTable(tag)[s.instance_type.s].monthly
        ELSE FamilyFallback(tag)

\* the first line of the i-th service
MainLine(i) ==
    LET owners == OwnersWhenNonZero(services, 1)
    IN  CHOOSE k \in 1..Len(owners) : owners[k].i = i /\ ~owners[k].ebs

\* the line of an instance service with count n >= 1 has unit_cost r and
\* total_cost r * n for r the expected rate; priced alone, EC2 goes to compute,
\* RDS and ElastiCache to database
InstanceLinesCost(emptyIsAbsent) ==
    Returned /\ Len(costs.details) = Len(OwnersWhenNonZero(services, 1)) =>
        /\ \A i \in 1..Len(services) :
             LET s == services[i]
                 item == costs.details[MainLine(i)]
             IN  (TagOf(s) \in InstanceTags /\ CountAtLeastOne(s)) =>
                    /\ item.quantity = s.count
                    /\ item.unit_cost = ExpectedRate(s, emptyIsAbsent)
                    /\ item.total_cost =
                          Q(ExpectedRate(s, emptyIsAbsent).n * s.count.n,
                            ExpectedRate(s, emptyIsAbsent).d * s.count.d)
        /\ (/\ Len(services) = 1
            /\ TagOf(services[1]) \in InstanceTags
            /\ CountAtLeastOne(services[1])) =>
                LET cost == costs.details[1].total_cost
                IN  /\ costs.network = N(0)
                    /\ IF TagOf(services[1]) = "EC2"
                       THEN costs.compute = cost /\ costs.database = N(0)
                       ELSE costs.database = cost /\ costs.compute = N(0)
                                                  /\ costs.storage = N(0)

(* C3 as stated: for EC2, RDS and ElastiCache with count n >= 1 the line has
   unit_cost r and total_cost r * n, r being the table's monthly rate of
   instance_type, the family default's rate (t3.medium, db.t3.medium,
   cache.t3.micro) when instance_type is absent, and the flat fallback
   (30, 50, 12.41) when instance_type is not in the family's table; EC2 is
   booked to compute, RDS and ElastiCache to database. *)
C3_RateFallbackWhenNotInTable == InstanceLinesCost(FALSE)

(* C3 as amended: the same, where the family default's rate is used when
   instance_type is absent or the empty string, and the fallback when
   instance_type is a non-empty string that is not in the family's table. *)
C3_RateDefaultWhenAbsentOrEmpty == InstanceLinesCost(TRUE)

\* an RDS service with count 2 and an unknown instance type, priced alone at
\* the fallback: 100 in database
C3_Witness ==
    /\ Returned
    /\ Len(services) = 1
    /\ TagOf(services[1]) = "RDS"
    /\ services[1].instance_type = Str("m9.unknown")
    /\ services[1].count = N(2)
    /\ costs.details[1].unit_cost = N(50)
    /\ costs.database = N(100)

(* C4 as stated: details follows the order of the services and holds exactly
   one line item per service, except that an EC2 service has a second line,
   right after its EC2 line, if and only if its storage_size is present; that
   EBS line costs storage_size * count * gp3_per_gb and is booked to storage,
   not to compute. *)
C4_EbsLineIffStoragePresent ==
    Returned =>
        LET owners == OwnersWhenPresent(services, 1)
        IN  /\ DetailsFollow(owners)
            /\ costs.storage = SumOfLines(owners, "storage", 1)
            /\ costs.compute = SumOfLines(owners, "compute", 1)

(* C4 as amended: the same, where the EC2 service has its EBS line if and only
   if its storage_size is present and not zero (a storage_size of 0 gives no
   EBS line). *)
C4_EbsLineIffStorageNonZero ==
    Returned =>
        LET owners == OwnersWhenNonZero(services, 1)
        IN  /\ DetailsFollow(owners)
            /\ costs.storage = SumOfLines(owners, "storage", 1)
            /\ costs.compute = SumOfLines(owners, "compute", 1)

\* an EC2 service with storage followed by another service: three lines,
\* EC2, EBS, then the line of the second service
C4_Witness ==
    /\ Returned
    /\ Len(services) = 2
    /\ TagOf(services[1]) = "EC2"
    /\ services[1].storage_size = N(50)
    /\ Len(costs.details) = 3
    /\ costs.details[2].service = "EBS"
    /\ costs.details[2].total_cost = N(4)
    /\ costs.storage = N(4)

(* C5: every line item's total_cost is added to exactly one bucket, by the
   map EC2/ECS/default -> compute, S3/EBS -> storage, ALB/CloudFront/WAF/
   NAT Gateway/CloudWatch/CloudTrail/SNS -> network, RDS/ElastiCache ->
   database: each bucket is the sum of total_cost over the lines mapped to
   it, and total is the sum of total_cost over all lines. *)
C5_BucketsAreSumsOfTheirLines ==
    Returned =>
        LET owners == OwnersWhenNonZero(services, 1)
        IN  /\ Len(costs.details) = Len(owners)
            /\ costs.compute = SumOfLines(owners, "compute", 1)
            /\ costs.storage = SumOfLines(owners, "storage", 1)
            /\ costs.network = SumOfLines(owners, "network", 1)
            /\ costs.database = SumOfLines(owners, "database", 1)
            /\ costs.total = SumOfAllLines(1)

\* two services of different buckets: a WAF line in network, an RDS line in
\* database
C5_Witness ==
    /\ Returned
    /\ Len(services) = 2
    /\ TagOf(services[1]) = "WAF"
    /\ TagOf(services[2]) = "RDS"
    /\ costs.network = N(6)
    /\ costs.database = D(4964, 100)
    /\ costs.compute = N(0)

----------------------------------------------------------------------------
(* Properties of generateCostOptimizationRecommendations *)

\* the rules on integral dollar amounts, by cross-multiplication
ComputeRuleHolds(b) == 10 * b.compute.n > 6 * b.total.n
StorageRuleHolds(b) == 10 * b.storage.n > 3 * b.total.n
NetworkRuleHolds(b) == 4 * b.network.n > b.total.n
TotalRuleHolds(b) == b.total.n > 500

RulesHolding(b) ==
    (IF ComputeRuleHolds(b) THEN 1 ELSE 0) + (IF StorageRuleHolds(b) THEN 1 ELSE 0)
    + (IF NetworkRuleHolds(b) THEN 1 ELSE 0) + (IF TotalRuleHolds(b) THEN 1 ELSE 0)

(* C6: the recommendations are the concatenation, in the order compute-heavy,
   storage-heavy, network-heavy, total-cost, of the two strings of each rule
   whose strict condition holds (compute > 0.6 * total, storage > 0.3 * total,
   network > 0.25 * total, total > 500); the rules are independent, a value
   exactly at a threshold fires nothing, and the length is twice the number
   of rules that hold. *)
C6_RecommendationsAreTheFiredRulesInOrder ==
    pc = "recommended" =>
        /\ recommendations =
              (IF ComputeRuleHolds(breakdown)
               THEN <<"Consider Reserved Instances for compute resources to save up to 75%",
                      "Implement Auto Scaling to optimize instance usage during low traffic periods">>
               ELSE <<>>)
              \o (IF StorageRuleHolds(breakdown)
                  THEN <<"Use S3 Intelligent Tiering to automatically optimize storage costs",
                         "Consider S3 Glacier for long-term archival storage">>
                  ELSE <<>>)
              \o (IF NetworkRuleHolds(breakdown)
                  THEN <<"Optimize data transfer by using CloudFront CDN more effectively",
                         "Consider AWS Direct Connect for high-volume data transfer">>
                  ELSE <<>>)
              \o (IF TotalRuleHolds(breakdown)
                  THEN <<"Enable AWS Cost Explorer and set up billing alerts",
                         "Consider AWS Savings Plans for additional discounts">>
                  ELSE <<>>)
        /\ Len(recommendations) = 2 * RulesHolding(breakdown)

\* all four rules fire together: eight strings
C6_Witness ==
    /\ pc = "recommended"
    /\ breakdown.compute = N(600) /\ breakdown.storage = N(300)
    /\ breakdown.network = N(300) /\ breakdown.database = N(-600)
    /\ breakdown.total = N(600)
    /\ Len(recommendations) = 8

(* C7: for every breakdown whose total is 0 the recommendations are empty:
   no rule fires when total == 0, whatever the values of the four buckets. *)
C7_NoRuleFiresWhenTotalIsZero ==
    (pc = "recommended" /\ breakdown.total = N(0)) => recommendations = <<>>

----------------------------------------------------------------------------
(* Properties of getServiceConfiguration *)

\* the branches whose condition holds for the service being classified
MatchingRules ==
    {k \in Rules : RuleMatches(k, toLowerCase(service.name.s), toLowerCase(service.type.s))}

\* the branches whose condition holds by the name alone
NameRules == {k \in Rules : RuleMatches(k, toLowerCase(service.name.s), "")}

GenericTypeTokens == {"compute", "server", "storage", "database", "network"}

HasField(cfg, name, type) ==
    \E i \in 1..Len(cfg.customFields) :
        cfg.customFields[i].name = name /\ cfg.customFields[i].type = type

(* C8: a service named "Amazon DynamoDB" gets the DynamoDB configuration
   (countLabel 'NoSQL Database', read/write capacity and billing-mode fields)
   and never the RDS configuration, whether its type hint is absent, empty or
   any category word, "database" included. *)
C8_DynamoDBIsNeverCapturedByRDS ==
    (service.name = Str("Amazon DynamoDB") /\ pc # "input") =>
        /\ pc = "classified"
        /\ config.countLabel = "NoSQL Database"
        /\ config.countLabel # "Database Instances"
        /\ HasField(config, "readCapacity", "number")
        /\ HasField(config, "writeCapacity", "number")
        /\ HasField(config, "billingMode", "select")

(* C9: specific-name checks precede generic-type checks: a service whose name
   holds the specific token of exactly one family is classified into that
   family even when its type hint holds a generic token (compute, server,
   storage, database, network). *)
C9_SpecificNameBeatsGenericType ==
    (/\ pc = "classified"
     /\ Cardinality(NameRules) = 1
     /\ \E g \in GenericTypeTokens : includes(toLowerCase(service.type.s), g)) =>
        \A k \in NameRules : config = RuleConfig(k)

(* C10: for every name and type that are strings, getServiceConfiguration
   returns one configuration without failing: that of the first branch, in the
   order of the chain, whose case-insensitive substring condition holds, and
   the default 'Managed Service' configuration (showCount false,
   showInstanceType false, a free-text usageMetric field) if and only if no
   condition holds. *)
C10_FirstMatchingRuleOrDefault ==
    /\ (service.name.t = "string" /\ service.type.t = "string") => pc # "threw"
    /\ pc = "classified" =>
        /\ MatchingRules = {} <=> config.countLabel = "Managed Service"
        /\ MatchingRules = {} =>
              /\ config = RuleConfig(0)
              /\ ~config.showCount
              /\ ~config.showInstanceType
              /\ HasField(config, "usageMetric", "text")
        /\ MatchingRules # {} =>
              \E k \in MatchingRules :
                  /\ \A j \in MatchingRules : k <= j
                  /\ config = RuleConfig(k)
                  /\ \A j \in Rules \ {k} : config # RuleConfig(j)

\* an upper-case name that two branches match (S3 by the name, RDS by the
\* type): the earlier branch, S3, is returned
C10_Witness ==
    /\ pc = "classified"
    /\ service.name = Str("Amazon S3")
    /\ service.type = Str("Database")
    /\ MatchingRules = {6, 10}
    /\ config.countLabel = "Storage Service"


----------------------------------------------------------------------------
\* the four buckets and the total of a breakdown are finite numbers
FiniteBreakdown(c) ==
    /\ IsFinite(c.compute) /\ IsFinite(c.storage)
    /\ IsFinite(c.network) /\ IsFinite(c.database) /\ IsFinite(c.total)

(* C11: calculateAWSCosts never fails: for every list of services, with name,
   count, instance_type, storage_size or bandwidth missing or malformed, it
   returns, without throwing, a breakdown whose four buckets and total are
   finite numbers. *)
C11_AlwaysAFiniteEstimate ==
    (pc \in {"calculated", "recommended", "threw"}) =>
        /\ pc # "threw"
        /\ FiniteBreakdown(costs)

\* the branches of the switch that read service.count for the price
CountTags == {"EC2", "RDS", "ALB", "APPLICATION LOAD BALANCER", "NAT GATEWAY", "ELASTICACHE"}
UsesCount(s) == TagOf(s) \in CountTags \/ TagOf(s) \notin CalculatorTags

\* two breakdowns carry the same prices: buckets, total, and the unit_cost
\* and total_cost of every line
SamePrices(a, b) ==
    /\ a.compute = b.compute /\ a.storage = b.storage
    /\ a.network = b.network /\ a.database = b.database /\ a.total = b.total
    /\ Len(a.details) = Len(b.details)
    /\ \A k \in 1..Len(a.details) :
         /\ k <= Len(b.details)
         /\ a.details[k].unit_cost = b.details[k].unit_cost
         /\ a.details[k].total_cost = b.details[k].total_cost

(* C12: a service whose count is absent is priced exactly as the same service
   with count 1, in every branch that uses count (EC2 with its EBS line, RDS,
   ALB, NAT Gateway, ElastiCache, default). *)
C12_AbsentCountIsPricedAsOne ==
    (/\ Returned
     /\ Len(services) = 1
     /\ UsesCount(services[1])
     /\ services[1].count = undefined) =>
        SamePrices(costs,
                   calculateAWSCosts(<<[services[1] EXCEPT !.count = N(1)]>>, "us-east-1"))

\* the five fields of a service the claim names
FiveFields(s) ==
    <<s.name, s.instance_type, s.count, s.storage_size, s.bandwidth>>

(* C13: two calls of calculateAWSCosts whose services agree on name,
   instance_type, count, storage_size and bandwidth return identical
   breakdowns, whatever the services' type and customConfig are, and the
   earlier result is still what the caller holds after the later call. *)
C13_FunctionOfFiveFields ==
    (pc = "recalculated") =>
        /\ costs = previous
        /\ previous = calculateAWSCosts(
                         [k \in 1..Len(services) |->
                            [services[k] EXCEPT !.type = Str("service"),
                                                !.customConfig = NoCustomConfig]],
                         "us-east-1")

\* a second call has returned a non-zero finite total for services of which one
\* has another type and a customConfig naming a storage override
C13_Witness ==
    /\ pc = "recalculated"
    /\ IsFinite(costs.total) /\ costs.total # N(0)
    /\ \E k \in 1..Len(services) :
         /\ services[k].type = Str("compute")
         /\ services[k].customConfig.t = "object"
         /\ TagOf(services[k]) = "EC2"

(* C19: the rates are region-specific: there is a service list and two of the
   selectable regions for which calculateAWSCosts returns different totals. *)
C19_TotalsDependOnRegion ==
    Returned =>
        \E svcs \in ServiceLists : \E r1 \in Regions, r2 \in Regions :
            /\ ~CalculateThrows(svcs)
            /\ calculateAWSCosts(svcs, r1).total # calculateAWSCosts(svcs, r2).total

\* the usage of a service when the default applies only to an absent field
UsageOrDefault(x, dflt) == IF x.t = "undefined" THEN dflt ELSE x

(* C20: usage defaults apply exactly when the field is absent: S3 costs
   storage_size * standard_per_gb with 100 GB only if storage_size is absent,
   CloudFront costs bandwidth * data_transfer_per_gb + monthly_base with
   1000 GB only if bandwidth is absent, the NAT Gateway usage part is
   bandwidth * data_processing_per_gb with 500 GB only if bandwidth is absent;
   a given value, 0 included, is used as given. *)
C20_DefaultsOnlyWhenAbsent ==
    (Returned /\ Len(services) = 1 /\ CountAtLeastOne(services[1])) =>
        LET s == services[1]
            tag == TagOf(s)
            item == costs.details[1]
        IN  /\ tag = "S3" =>
                 item.total_cost = Mul(UsageOrDefault(s.storage_size, N(100)),
                                       AWS_PRICING.S3.standard.per_gb)
            /\ tag = "CLOUDFRONT" =>
                 item.total_cost = Add(Mul(UsageOrDefault(s.bandwidth, N(1000)),
                                           AWS_PRICING.CloudFront.data_transfer_per_gb),
                                       AWS_PRICING.CloudFront.monthly_base)
            /\ tag = "NAT GATEWAY" =>
                 item.total_cost = Add(Mul(AWS_PRICING.NAT_Gateway.monthly, s.count),
                                       Mul(UsageOrDefault(s.bandwidth, N(500)),
                                           AWS_PRICING.NAT_Gateway.data_processing_per_gb))


----------------------------------------------------------------------------
\* the words that mark a throttling error
ThrottlingWords == {"ThrottlingException", "Too many requests", "429"}
NamesThrottling(message) == \E w \in ThrottlingWords : includes(message, w)

\* the k-th model call was answered with a throttling error
Throttled(k) == ~modelCalls[k].ok /\ NamesThrottling(modelCalls[k].value)

(* C14: generateDocumentContent retries only on throttling errors: before
   retry k (k = 0, 1, 2) it waits 2000 * 2^k ms; it issues at most 4 model
   calls; it returns the text of the first successful call and issues no call
   after a success; it throws with no retry on a non-throttling error and
   after the 4th throttled attempt. *)
C14_RetriesOnlyOnThrottlingWithBackoff ==
    LET n == Len(modelCalls)
    IN  /\ n <= 4
        \* every call but the last was throttled, and was followed by its wait
        /\ \A k \in 1..n : (k < n \/ pc = "generate") => Throttled(k)
        /\ Len(sleeps) = (IF pc = "generate" THEN n ELSE n - 1)
        /\ \A k \in 1..Len(sleeps) : sleeps[k] = 2000 * Pow2(k - 1)
        \* a fifth call is never about to be issued
        /\ pc = "generate" => n <= 3
        /\ pc = "returned" =>
             /\ modelCalls[n].ok
             /\ result = [kind |-> "text", value |-> modelCalls[n].value]
        /\ pc = "threw" =>
             /\ ~modelCalls[n].ok
             /\ result.kind = "error"
             /\ ~Throttled(n) \/ n = 4

\* three throttled calls, each followed by its wait, then a fourth call that
\* returned its text
C14_Witness ==
    /\ pc = "returned"
    /\ Len(modelCalls) = 4
    /\ sleeps = <<2000, 4000, 8000>>
    /\ result.value = "# Document"


----------------------------------------------------------------------------
(* C15: a document generation that fails with an error the retry logic
   classifies as throttling (message containing 'ThrottlingException',
   'Too many requests' or '429') is stored with status "rate_limited", never
   "failed"; a failure that is not throttling is stored with status "failed",
   never "rate_limited". *)
C15_ThrottlingIsStoredAsRateLimited ==
    \A k \in 1..Len(generatedDocuments) :
        (k <= Len(modelCalls) /\ ~modelCalls[k].ok) =>
            generatedDocuments[k].status =
                (IF NamesThrottling(modelCalls[k].value) THEN "rate_limited" ELSE "failed")

\* the request names only the four document types and its analysis is stored
BatchUnderWay ==
    /\ pc \in {"loop", "responded"}
    /\ architectureAnalyses # <<>>
    /\ \A k \in 1..Len(documentTypes) : documentTypes[k] \in DocumentTypeNames

(* C16: in POST /api/generate-documents one document's failure never aborts
   the batch: for every documentTypes array over the four types and every
   pattern of failures, the types are processed in array order, exactly one
   record is stored per requested type (status generated, rate_limited or
   failed), every type after a failed one is still attempted, and the answer
   is 200. *)
C16_FailureNeverAbortsTheBatch ==
    BatchUnderWay =>
        LET done == IF pc = "responded" THEN Len(documentTypes) ELSE docIndex - 1
        IN  /\ Len(generatedDocuments) = done
            /\ Len(modelCalls) = done
            /\ \A k \in 1..done :
                 /\ generatedDocuments[k].documentType = documentTypes[k]
                 /\ generatedDocuments[k].status \in {"generated", "rate_limited", "failed"}
                 /\ generatedDocuments[k].status = "generated" <=> modelCalls[k].ok
            /\ pc = "loop" => httpStatus = 0
            /\ (pc = "loop" /\ docIndex <= Len(documentTypes)) =>
                 ENABLED (GenerateDocument \/ GenerateDocumentFails)
            /\ pc = "responded" => httpStatus = 200

\* a batch answered 200 whose first document failed and whose second one was
\* generated
C16_Witness ==
    /\ BatchUnderWay
    /\ pc = "responded" /\ httpStatus = 200
    /\ Len(generatedDocuments) = 2
    /\ generatedDocuments[1].status = "failed"
    /\ generatedDocuments[2].status = "generated"


----------------------------------------------------------------------------
\* analyzeArchitectureDiagram has returned an analysis
Analyzed == modelCalls # <<>> /\ result.kind # "error" /\ modelResponse.ok

\* the confidence the model reported, as JSON.parse reads it
ReportedConfidence == JSONParse(JsonMatch(modelResponse.value).text).confidence

\* 0 <= x <= 1
InUnitInterval(x) == x.t = "number" /\ 0 <= x.n /\ x.n <= x.d

(* C17: the confidence analyzeArchitectureDiagram returns is the reported one
   clamped to [0,1]: it lies in [0,1], it is the reported value when that is
   in [0,1] (0 included), 1 when the reported value is above 1, and 0 when it
   is below 0. *)
C17_ConfidenceIsClamped ==
    Analyzed =>
        /\ InUnitInterval(confidence)
        /\ ReportedConfidence.t = "number" =>
             /\ InUnitInterval(ReportedConfidence) => confidence = ReportedConfidence
             /\ Gt(ReportedConfidence, N(1)) => confidence = N(1)
             /\ Gt(N(0), ReportedConfidence) => confidence = N(0)

\* the answer has no JSON object, or one whose services is missing or no array
MalformedAnalysis ==
    /\ modelResponse.ok
    /\ LET jsonMatch == JsonMatch(modelResponse.value)
           parsed == JSONParse(jsonMatch.text)
       IN  \/ ~jsonMatch.found
           \/ parsed.ok /\ parsed.services.t # "array"

(* C18: when the model's answer has no JSON object, or its services field is
   missing or not an array, analyzeArchitectureDiagram throws after its one
   model call, and POST /api/analyze-architecture answers 500, with no cost
   calculation run, no analysis stored and the uploaded file removed. *)
C18_MalformedAnalysisFailsFast ==
    (MalformedAnalysis /\ modelCalls # <<>>) =>
        /\ pc \in {"threw", "responded"}
        /\ result.kind = "error"
        /\ Len(modelCalls) = 1
        /\ services = <<>> /\ costs = EmptyCosts /\ recommendations = <<>>
        /\ architectureAnalyses = <<>>
        /\ pc = "responded" => (httpStatus = 500 /\ ~uploadedFile)

\* the handler has answered 500 to an answer whose services is a string
C18_Witness ==
    /\ pc = "responded" /\ httpStatus = 500
    /\ ~uploadedFile
    /\ modelResponse.ok
    /\ JSONParse(JsonMatch(modelResponse.value).text).services.t = "string"
    /\ result.value =
         "Failed to analyze architecture diagram: Invalid analysis result: missing services array"


----------------------------------------------------------------------------
(* POST /api/deployments, the three nested timeouts that simulate the
   deployment, and the polling query of DeploymentStatus *)

MaxDeployments == 2

\* the bodies of the requests
DeploymentRequests ==
    [analysisId : {undefinedStr, Str("analysis-1")},
     awsRegion : {undefinedStr, Str("us-east-1")},
     awsAccessKey : {Str(""), Str("AKIA")},
     awsSecretKey : {Str(""), Str("secret")},
     autoDeployEnabled : BOOLEAN]

\* the record MemStorage.createDeployment stores
NewDeployment(req) ==
    [status |-> "pending", progress |-> 0,
     autoDeployEnabled |-> IF req.autoDeployEnabled THEN 1 ELSE 0]

\* the two early returns with status 400
BadDeploymentRequest(req) ==
    \/ ~TruthyStr(req.analysisId) \/ ~TruthyStr(req.awsRegion)
    \/ req.autoDeployEnabled /\ (~TruthyStr(req.awsAccessKey) \/ ~TruthyStr(req.awsSecretKey))

\* TimerUpdate with the deployment reported completed by the second timeout
TimerUpdate_CompletedEarly(k) ==
    CASE k = 1 -> [status |-> "in_progress", progress |-> 25]
      [] k = 2 -> [status |-> "completed", progress |-> 65]
      [] k = 3 -> [status |-> "completed", progress |-> 100]

\* the arguments of updateDeploymentStatus in the k-th timeout
TimerUpdate(k) ==
    CASE k = 1 -> [status |-> "in_progress", progress |-> 25]
      [] k = 2 -> [status |-> "in_progress", progress |-> 65]
      [] k = 3 -> [status |-> "completed", progress |-> 100]

\* MemStorage.updateDeploymentStatus: nothing if the id is unknown
updateDeploymentStatus(store, id, status, progress) ==
    IF id \in DOMAIN store
    THEN [store EXCEPT ![id].status = status, ![id].progress = progress]
    ELSE store

InitDeploy ==
    /\ services = <<>>
    /\ costs = EmptyCosts
    /\ breakdown = EmptyCosts
    /\ recommendations = <<>>
    /\ service = NoService
    /\ config = NoConfig
    /\ pc = "serving"
    /\ previous = EmptyCosts
    /\ ServerIdle
    /\ ClientIdle

\* POST /api/deployments answered 400
RejectDeployment ==
    /\ pc = "serving"
    /\ \E req \in DeploymentRequests :
        /\ BadDeploymentRequest(req)
        /\ httpStatus' = 400
    /\ UNCHANGED <<notDeployVars, deployVars>>

\* POST /api/deployments: the deployment is stored, the first timeout is set
\* if autoDeployEnabled, and the stored record is the response
CreateDeployment ==
    /\ pc = "serving"
    /\ Len(deployments) < MaxDeployments
    /\ \E req \in DeploymentRequests :
        /\ ~BadDeploymentRequest(req)
        /\ deployments' = Append(deployments, NewDeployment(req))
        /\ timers' = Append(timers, IF req.autoDeployEnabled THEN 1 ELSE 0)
        /\ polled' = Append(polled, [status |-> NewDeployment(req).status,
                                     progress |-> NewDeployment(req).progress])
        /\ httpStatus' = 200
    /\ UNCHANGED notDeployVars

\* the pending timeout of deployment id runs: it updates the stored record
\* and sets the next timeout
TimerFires(id) ==
    /\ pc = "serving"
    /\ id \in DOMAIN timers
    /\ timers[id] > 0
    /\ deployments' = updateDeploymentStatus(deployments, id, TimerUpdate(timers[id]).status,
                                             TimerUpdate(timers[id]).progress)
    /\ timers' = [timers EXCEPT ![id] = IF @ < 3 THEN @ + 1 ELSE 0]
    /\ UNCHANGED <<notDeployVars, httpStatus, polled>>

\* the refetch of DeploymentStatus: GET /api/deployments/:id
PollDeployment(id) ==
    /\ pc = "serving"
    /\ id \in DOMAIN deployments
    /\ polled' = [polled EXCEPT ![id] = [status |-> deployments[id].status,
                                         progress |-> deployments[id].progress]]
    /\ UNCHANGED <<notDeployVars, httpStatus, deployments, timers>>

NextDeploy ==
    \/ RejectDeployment
    \/ CreateDeployment
    \/ \E id \in 1..MaxDeployments : TimerFires(id)
    \/ \E id \in 1..MaxDeployments : PollDeployment(id)

SpecDeploy == InitDeploy /\ [][NextDeploy]_vars

\* every timeout that has been set runs
FairDeploy == SpecDeploy /\ \A id \in 1..MaxDeployments : WF_vars(TimerFires(id))

----------------------------------------------------------------------------
(* DocumentGeneration: batches of POST /api/generate-documents for one stored
   analysis, each followed by the refetch of the documents query *)

MaxBatches == 2

\* the types of the cards the batches ask for
CardTypes == {"pricing", "solution"}

\* find() found nothing
NoDocument == GeneratedDocument("", "", "undefined")

\* Array.prototype.find: the first record of the type
RECURSIVE Find(_, _)
Find(docs, docType) ==
    IF docs = <<>> THEN NoDocument
    ELSE IF Head(docs).documentType = docType THEN Head(docs)
    ELSE Find(Tail(docs), docType)

\* documentsQuery.data?.find((doc) => doc.documentType === docType)
getDocumentStatus(docType) == Find(documentsQuery, docType)

\* generateDocumentsMutation.isPending
isPending == pc \in {"request", "loop", "responded"}

\* the button at the bottom of the card of docType
CardButton(docType) ==
    LET status == getDocumentStatus(docType)
    IN  IF status.status = "generated" THEN "Download"
        ELSE IF status.status = "failed" THEN "Generation Failed"
        ELSE IF isPending THEN "Generating..."
        ELSE "Preview"

InitCards ==
    /\ InitDocuments
    /\ architectureAnalyses = <<Analysis>>
    /\ documentTypes # <<>>
    /\ \A k \in 1..Len(documentTypes) : documentTypes[k] \in CardTypes

\* onSuccess: documentsQuery.refetch(), GET /api/analysis/:analysisId/documents;
\* every stored record belongs to the one analysis
RefetchDocuments ==
    /\ pc = "responded" /\ httpStatus = 200
    /\ documentsQuery' = generatedDocuments
    /\ batches' = batches + 1
    /\ pc' = "shown"
    /\ UNCHANGED <<calcVars, previous, serverVars, deployVars, sizingVars, dashVars>>

\* handleGenerateDocuments: the next batch is requested
GenerateAgain ==
    /\ pc = "shown"
    /\ batches < MaxBatches
    /\ documentTypes' \in {l \in ListsOf(CardTypes, MaxDocuments) : l # <<>>}
    /\ docIndex' = 0
    /\ documents' = <<>>
    /\ modelCalls' = <<>>
    /\ sleeps' = <<>>
    /\ httpStatus' = 0
    /\ pc' = "request"
    /\ UNCHANGED <<calcVars, previous, retryCount, result, generatedDocuments, analyzeVars,
                   clientVars>>

NextCards ==
    \/ StartDocuments
    \/ GenerateDocument
    \/ GenerateDocumentFails
    \/ RespondDocuments
    \/ RefetchDocuments
    \/ GenerateAgain

SpecCards == InitCards /\ [][NextCards]_vars

----------------------------------------------------------------------------
(* SizingAdjustment: handleServiceUpdate called by the count input and by the
   instance type select *)

\* how many options of a select are tried
MaxOptions == 2

Digits == "0123456789"

\* the number of decimal digits of str from position i on
RECURSIVE LeadingDigits(_, _)
LeadingDigits(str, i) ==
    IF i > Len(str) \/ IndexIn(CharAt(str, i), Digits) = 0 THEN 0
    ELSE 1 + LeadingDigits(str, i + 1)

\* the value of the len digits of str from position i on
RECURSIVE DigitsValue(_, _, _)
DigitsValue(str, i, len) ==
    IF len = 0 THEN 0
    ELSE 10 * DigitsValue(str, i, len - 1) + (IndexIn(CharAt(str, i + len - 1), Digits) - 1)

\* parseInt(str): an optional sign and the leading decimal digits, NaN if none
parseInt(str) ==
    LET signed == Len(str) > 0 /\ CharAt(str, 1) \in {"-", "+"}
        start == IF signed THEN 2 ELSE 1
        len == LeadingDigits(str, start)
        value == DigitsValue(str, start, len)
    IN  IF len = 0 THEN NaN
        ELSE N(IF signed /\ CharAt(str, 1) = "-" THEN 0 - value ELSE value)

\* what can be typed into the count input (e.target.value)
CountEntries == {"", "abc", "0", "2.5", "500", "-5"}

\* the services prop
SizingServices ==
    {[NoService EXCEPT !.name = Str("EC2"), !.type = Str("compute"), !.count = N(2),
                       !.instance_type = Str("t3.medium")],
     [NoService EXCEPT !.name = Str("RDS"), !.type = Str("database"), !.count = N(1)],
     [NoService EXCEPT !.name = Str("S3"), !.type = Str("storage"), !.count = N(1)]}

\* JSON.stringify of one service: the keys that are present, in order
StringifyService(s) ==
    "{name:" \o s.name.s \o ",type:" \o s.type.s
    \o (IF s.count.t = "undefined" THEN ""
        ELSE IF s.count.t = "number" THEN ",count:" \o NumToString(s.count)
        ELSE ",count:null")
    \o (IF s.instance_type.t = "string" THEN ",instance_type:" \o s.instance_type.s ELSE "")
    \o "}"

RECURSIVE JSONStringify(_)
JSONStringify(svcs) ==
    IF svcs = <<>> THEN ""
    ELSE StringifyService(Head(svcs)) \o "," \o JSONStringify(Tail(svcs))

hasChanges == JSONStringify(services) # JSONStringify(adjustedServices)

\* handleServiceUpdate(index, field, value): the list given to setAdjustedServices
handleServiceUpdate(list, index, field, value) ==
    IF field = "count"
    THEN [list EXCEPT ![index].count = OrNum(parseInt(value), N(1))]
    ELSE [list EXCEPT ![index].instance_type = Str(value)]

InitSizing ==
    /\ services \in {l \in ListsOf(SizingServices, MaxServices) : l # <<>>}
    /\ costs = EmptyCosts
    /\ breakdown = EmptyCosts
    /\ recommendations = <<>>
    /\ service = NoService
    /\ config = NoConfig
    /\ pc = "editing"
    /\ previous = EmptyCosts
    /\ ServerIdle
    /\ deployments = <<>> /\ timers = <<>> /\ polled = <<>>
    /\ documentsQuery = <<>> /\ batches = 0
    /\ DashboardIdle
    /\ adjustedServices = services
    /\ lastEdit = NoEdit

\* onChange of the count input of service index
ChangeCount(index) ==
    /\ pc = "editing"
    /\ index \in DOMAIN adjustedServices
    /\ getServiceConfiguration(adjustedServices[index]).showCount
    /\ \E value \in CountEntries :
         adjustedServices' = handleServiceUpdate(adjustedServices, index, "count", value)
    /\ lastEdit' = [index |-> index, field |-> "count", before |-> adjustedServices]
    /\ UNCHANGED <<calcVars, pc, previous, serverVars, deployVars, cardVars, dashVars>>

\* onValueChange of the instance type select of service index
ChangeInstanceType(index) ==
    /\ pc = "editing"
    /\ index \in DOMAIN adjustedServices
    /\ getServiceConfiguration(adjustedServices[index]).showInstanceType
    /\ LET options == getInstanceTypeOptions(adjustedServices[index].type.s)
       IN  \E k \in 1..MaxOptions :
             /\ k <= Len(options)
             /\ adjustedServices' =
                    handleServiceUpdate(adjustedServices, index, "instance_type", options[k])
    /\ lastEdit' = [index |-> index, field |-> "instance_type", before |-> adjustedServices]
    /\ UNCHANGED <<calcVars, pc, previous, serverVars, deployVars, cardVars, dashVars>>

NextSizing ==
    \/ \E index \in 1..MaxServices : ChangeCount(index)
    \/ \E index \in 1..MaxServices : ChangeInstanceType(index)

SpecSizing == InitSizing /\ [][NextSizing]_vars

----------------------------------------------------------------------------
(* Dashboard with UploadSection and ConfigurationPanel: the user's actions
   and the outcomes of the two requests.  diagramFile stands for the
   uploadedFile state of UploadSection. *)

\* how many requests of a kind are followed
MaxRequests == 3

\* what the form of ConfigurationPanel can hold
DeploymentForms ==
    [autoDeployEnabled : BOOLEAN, awsAccessKey : {"", "AKIA"}, awsSecretKey : {"", "secret"}]

\* the Analyze Architecture button rendered whenever a file is chosen
AnalyzeButtonShown_WithAnyFile == diagramFile

\* !analysisMutation.data && !analysisMutation.isPending && uploadedFile
AnalyzeButtonShown ==
    /\ analysisMutation # "success"
    /\ analysisMutation # "pending"
    /\ diagramFile

\* the submit button: disabled || deploymentMutation.isPending
SubmitDisabled == ~analysisData \/ deploymentMutation = "pending"

\* the early returns of handleSubmit
SubmitReturnsEarly ==
    \/ ~analysisData
    \/ form.autoDeployEnabled /\ (form.awsAccessKey = "" \/ form.awsSecretKey = "")

InitDashboard ==
    /\ services = <<>>
    /\ costs = EmptyCosts
    /\ breakdown = EmptyCosts
    /\ recommendations = <<>>
    /\ service = NoService
    /\ config = NoConfig
    /\ pc = "dashboard"
    /\ previous = EmptyCosts
    /\ ServerIdle
    /\ ClientIdle

\* handleFileUpload with a file of an allowed type and size
ChooseFile ==
    /\ pc = "dashboard"
    /\ ~diagramFile
    /\ diagramFile' = TRUE
    /\ UNCHANGED <<notDashVars, currentStep, analysisData, deploymentData, analysisMutation,
                   deploymentMutation, form, requests>>

\* removeFile
RemoveFile ==
    /\ pc = "dashboard"
    /\ diagramFile
    /\ diagramFile' = FALSE
    /\ UNCHANGED <<notDashVars, currentStep, analysisData, deploymentData, analysisMutation,
                   deploymentMutation, form, requests>>

\* startAnalysis: analysisMutation.mutate(uploadedFile)
StartAnalysis ==
    /\ pc = "dashboard"
    /\ AnalyzeButtonShown
    /\ requests.analysis < MaxRequests
    /\ analysisMutation' = "pending"
    /\ requests' = [requests EXCEPT !.analysis = @ + 1]
    /\ UNCHANGED <<notDashVars, currentStep, analysisData, deploymentData, diagramFile,
                   deploymentMutation, form>>

\* POST /api/analyze-architecture answered 200: onSuccess, onAnalysisComplete
AnalysisSucceeds ==
    /\ pc = "dashboard"
    /\ analysisMutation = "pending"
    /\ analysisMutation' = "success"
    /\ analysisData' = TRUE
    /\ currentStep' = 2
    /\ requests' = [requests EXCEPT !.analysed = @ + 1]
    /\ UNCHANGED <<notDashVars, deploymentData, diagramFile, deploymentMutation, form>>

\* POST /api/analyze-architecture failed: onError
AnalysisFails ==
    /\ pc = "dashboard"
    /\ analysisMutation = "pending"
    /\ analysisMutation' = "error"
    /\ UNCHANGED <<notDashVars, currentStep, analysisData, deploymentData, diagramFile,
                   deploymentMutation, form, requests>>

\* the switch and the key inputs of the form, enabled once analysisData is set
EditForm ==
    /\ pc = "dashboard"
    /\ analysisData
    /\ form' \in DeploymentForms \ {form}
    /\ UNCHANGED <<notDashVars, currentStep, analysisData, deploymentData, diagramFile,
                   analysisMutation, deploymentMutation, requests>>

\* handleSubmit: deploymentMutation.mutate(...) unless it returns early
SubmitDeployment ==
    /\ pc = "dashboard"
    /\ ~SubmitDisabled
    /\ requests.deployment < MaxRequests
    /\ ~SubmitReturnsEarly
    /\ deploymentMutation' = "pending"
    /\ requests' = [requests EXCEPT !.deployment = @ + 1]
    /\ UNCHANGED <<notDashVars, currentStep, analysisData, deploymentData, diagramFile,
                   analysisMutation, form>>

\* POST /api/deployments answered 200: onSuccess, onDeploymentCreate
DeploymentSucceeds ==
    /\ pc = "dashboard"
    /\ deploymentMutation = "pending"
    /\ deploymentMutation' = "success"
    /\ deploymentData' = TRUE
    /\ currentStep' = 3
    /\ UNCHANGED <<notDashVars, analysisData, diagramFile, analysisMutation, form, requests>>

\* POST /api/deployments failed: onError
DeploymentFails ==
    /\ pc = "dashboard"
    /\ deploymentMutation = "pending"
    /\ deploymentMutation' = "error"
    /\ UNCHANGED <<notDashVars, currentStep, analysisData, deploymentData, diagramFile,
                   analysisMutation, form, requests>>

NextDashboard ==
    \/ ChooseFile
    \/ RemoveFile
    \/ StartAnalysis
    \/ AnalysisSucceeds
    \/ AnalysisFails
    \/ EditForm
    \/ SubmitDeployment
    \/ DeploymentSucceeds
    \/ DeploymentFails

SpecDashboard == InitDashboard /\ [][NextDashboard]_vars

----------------------------------------------------------------------------
\* the only service of the list, priced, with a count n >= 1
PricedAlone(tags) ==
    /\ Returned /\ Len(services) = 1
    /\ services[1].name.t = "string" /\ TagOf(services[1]) \in tags
    /\ CountAtLeastOne(services[1])

\* the line of the same service with count 1
LineForCountOne ==
    calculateAWSCosts(<<[services[1] EXCEPT !.count = N(1)]>>, "us-east-1").details[1]

(* C21: for an ALB or NAT Gateway service with count n >= 1, total_cost is
   monthly_base * n plus an add-on that does not grow with n (ALB:
   lcu_hourly * 24 * 30 * 2; NAT Gateway: bandwidth * data_processing_per_gb),
   the cost is booked to network, and unit_cost * quantity = total_cost. *)
C21_FixedFeePerUnitPlusAddOn ==
    PricedAlone({"ALB", "APPLICATION LOAD BALANCER", "NAT GATEWAY"}) =>
        LET s == services[1]
            item == costs.details[1]
            monthly == IF TagOf(s) = "NAT GATEWAY" THEN AWS_PRICING.NAT_Gateway.monthly
                       ELSE AWS_PRICING.ALB.monthly
            addOn == Add(item.total_cost, Mul(N(-1), Mul(monthly, s.count)))
        IN  /\ Len(costs.details) = 1
            /\ addOn = Add(LineForCountOne.total_cost, Mul(N(-1), monthly))
            /\ TagOf(s) # "NAT GATEWAY" =>
                 addOn = Mul(Mul(Mul(AWS_PRICING.ALB.lcu_hourly, N(24)), N(30)), N(2))
            /\ (TagOf(s) = "NAT GATEWAY" /\ TruthyNum(s.bandwidth)) =>
                 addOn = Mul(s.bandwidth, AWS_PRICING.NAT_Gateway.data_processing_per_gb)
            /\ costs.network = item.total_cost
            /\ costs.compute = N(0) /\ costs.storage = N(0) /\ costs.database = N(0)
            /\ item.quantity = s.count
            /\ Mul(item.unit_cost, item.quantity) = item.total_cost

\* two NAT Gateways with 50 GB of traffic have been priced
C21_Witness ==
    /\ PricedAlone({"NAT GATEWAY"})
    /\ services[1].count = N(2)
    /\ services[1].bandwidth = N(50)
    /\ costs.details[1].total_cost = D(6705, 100)

\* the flat monthly constant of a tag
FlatConstant(tag) ==
    CASE tag \in {"WAF", "AWS WAF"} -> D(600, 100)
      [] tag = "CLOUDWATCH" -> D(350, 100)
      [] tag = "CLOUDTRAIL" -> D(200, 100)
      [] tag \in {"SNS", "SIMPLE NOTIFICATION SERVICE"} -> D(50, 100)
      [] tag \in {"ECS", "ELASTIC CONTAINER SERVICE"} -> N(0)

FlatTags == {"WAF", "AWS WAF", "CLOUDWATCH", "CLOUDTRAIL", "SNS",
             "SIMPLE NOTIFICATION SERVICE", "ECS", "ELASTIC CONTAINER SERVICE"}

(* C22: a WAF, CloudWatch, CloudTrail, SNS or ECS service costs a flat
   constant (6.00, 3.50, 2.00, 0.50 and 0) whatever its count, instance_type,
   storage_size and bandwidth are; ECS adds 0 to compute, the other four add
   their constant to network. *)
C22_FlatServicesIgnoreTheirFields ==
    (/\ Returned /\ Len(services) = 1
     /\ services[1].name.t = "string" /\ TagOf(services[1]) \in FlatTags) =>
        LET tag == TagOf(services[1])
        IN  /\ Len(costs.details) = 1
            /\ costs.details[1].total_cost = FlatConstant(tag)
            /\ costs.total = FlatConstant(tag)
            /\ costs.compute = N(0) /\ costs.storage = N(0) /\ costs.database = N(0)
            /\ costs.network = FlatConstant(tag)

\* a CloudWatch service with count 2 and all other fields set has been priced
C22_Witness ==
    /\ Returned /\ Len(services) = 1
    /\ services[1].name = Str("CloudWatch")
    /\ services[1].count = N(2)
    /\ services[1].instance_type = Str("t3.large")
    /\ services[1].storage_size = N(50) /\ services[1].bandwidth = N(50)
    /\ costs.network = D(350, 100)

\* the breakdown of the services i..j
BreakdownOf(i, j) == calculateAWSCosts(SubSeq(services, i, j), "us-east-1")

\* c has the buckets and total of a plus those of b
SumOfBreakdowns(c, a, b) ==
    /\ c.compute = Add(a.compute, b.compute)
    /\ c.storage = Add(a.storage, b.storage)
    /\ c.network = Add(a.network, b.network)
    /\ c.database = Add(a.database, b.database)
    /\ c.total = Add(a.total, b.total)

\* the services in reverse order
Reversed(svcs) == [k \in 1..Len(svcs) |-> svcs[Len(svcs) + 1 - k]]

(* C23: services are priced independently: for lists A and B the buckets and
   the total of calculateAWSCosts(A ++ B) are the sums of those of A and of B,
   and its details are those of A followed by those of B; reordering the
   services leaves the four buckets and the total unchanged. *)
C23_BreakdownIsAdditive ==
    Returned =>
        /\ \A k \in 0..Len(services) :
             LET a == BreakdownOf(1, k)
                 b == BreakdownOf(k + 1, Len(services))
             IN  /\ SumOfBreakdowns(costs, a, b)
                 /\ costs.details = a.details \o b.details
        /\ LET r == calculateAWSCosts(Reversed(services), "us-east-1")
           IN  /\ r.compute = costs.compute /\ r.storage = costs.storage
               /\ r.network = costs.network /\ r.database = costs.database
               /\ r.total = costs.total

\* two services of different buckets have been priced together
C23_Witness ==
    /\ Returned /\ Len(services) = 2
    /\ costs.compute # N(0) /\ costs.network # N(0)
    /\ IsFinite(costs.total)
    /\ Len(costs.details) = 3

\* count >= 1, storage_size and bandwidth absent or not negative
WellFormed(s) ==
    /\ CountAtLeastOne(s)
    /\ s.storage_size.t = "undefined" \/ (s.storage_size.t = "number" /\ s.storage_size.n >= 0)
    /\ s.bandwidth.t = "undefined" \/ (s.bandwidth.t = "number" /\ s.bandwidth.n >= 0)

\* str is one of the recommendations
Recommends(str) == \E k \in 1..Len(recommendations) : recommendations[k] = str

(* C24: on a breakdown of services with count >= 1 and non-negative
   storage_size and bandwidth the compute-heavy, storage-heavy and
   network-heavy rules never fire all three, so the recommendations have at
   most 6 strings. *)
C24_NeverAllThreeShareRules ==
    (pc = "recommended" /\ \A k \in 1..Len(services) : WellFormed(services[k])) =>
        /\ ~(/\ Recommends(ComputeRecommendations[1])
             /\ Recommends(StorageRecommendations[1])
             /\ Recommends(NetworkRecommendations[1]))
        /\ Len(recommendations) <= 6

\* the compute-heavy and the network-heavy rule have fired on well-formed services
C24_Witness ==
    /\ pc = "recommended" /\ \A k \in 1..Len(services) : WellFormed(services[k])
    /\ Len(services) = 2
    /\ recommendations = ComputeRecommendations \o NetworkRecommendations

(* C25: when getServiceConfiguration hides the count input of a service
   (showCount false), the cost calculateAWSCosts computes for it does not
   depend on its count: the same service with another count has the same
   total_cost. *)
C25_HiddenCountDoesNotPrice ==
    (/\ Returned /\ Len(services) = 1
     /\ ~ClassifyThrows(services[1])
     /\ CountAtLeastOne(services[1])
     /\ ~getServiceConfiguration(services[1]).showCount) =>
        \A n \in 1..MaxCount :
            LET other == calculateAWSCosts(<<[services[1] EXCEPT !.count = N(n)]>>,
                                           "us-east-1")
            IN  /\ Len(other.details) = Len(costs.details)
                /\ \A k \in 1..Len(costs.details) :
                     k <= Len(other.details) =>
                        other.details[k].total_cost = costs.details[k].total_cost

(* C26: whenever getServiceConfiguration shows the instance type select
   (showInstanceType true), getInstanceTypeOptions(service.type) is a
   non-empty list (the EC2 or the RDS list), and the count input is shown as
   well (showCount true). *)
C26_InstanceSelectHasOptions ==
    (pc = "classified" /\ config.showInstanceType) =>
        /\ getInstanceTypeOptions(service.type.s) \in {EC2_INSTANCE_TYPES, RDS_INSTANCE_TYPES}
        /\ config.showCount

\* deployment id exists and was created with autoDeployEnabled
AutoDeployed(id) == id \in DOMAIN deployments /\ deployments[id].autoDeployEnabled = 1

\* deployment id is stored as (completed, 100)
Completed(id) ==
    /\ id \in DOMAIN deployments
    /\ deployments[id].status = "completed" /\ deployments[id].progress = 100

\* the stored states in the order of the simulation
DeploymentStages ==
    <<[status |-> "pending", progress |-> 0], [status |-> "in_progress", progress |-> 25],
      [status |-> "in_progress", progress |-> 65], [status |-> "completed", progress |-> 100]>>

StageOf(d) ==
    CHOOSE k \in 0..4 :
        \/ k \in 1..4 /\ DeploymentStages[k] = [status |-> d.status, progress |-> d.progress]
        \/ k = 0 /\ \A j \in 1..4 :
                        DeploymentStages[j] # [status |-> d.status, progress |-> d.progress]

(* C27: a deployment created with autoDeployEnabled goes through the stored
   states (pending, 0), (in_progress, 25), (in_progress, 65), (completed, 100)
   in this order and eventually reaches (completed, 100); what a poll shows
   never decreases in progress and is completed exactly when progress is 100;
   the timers of other deployments never change it; a deployment created
   without autoDeployEnabled stays (pending, 0). *)
C27_DeploymentRunsToCompletion ==
    /\ [](\A id \in DOMAIN deployments :
            /\ StageOf(deployments[id]) \in 1..4
            /\ StageOf(polled[id]) \in 1..4
            /\ polled[id].status = "completed" <=> polled[id].progress = 100
            /\ deployments[id].autoDeployEnabled = 0 => StageOf(deployments[id]) = 1)
    /\ [][\A id \in DOMAIN deployments :
            /\ StageOf(deployments'[id]) \in {StageOf(deployments[id]),
                                              StageOf(deployments[id]) + 1}
            /\ deployments'[id] # deployments[id] => timers'[id] # timers[id]
            /\ polled'[id].progress >= polled[id].progress]_vars
    /\ \A id \in 1..MaxDeployments :
            [](AutoDeployed(id) => <>Completed(id))

\* two deployments with autoDeployEnabled, one completed and seen completed by
\* its poll while the other is still at 25 %
C27_Witness ==
    /\ Len(deployments) = 2
    /\ AutoDeployed(1) /\ AutoDeployed(2)
    /\ StageOf(deployments[1]) = 4 /\ polled[1].status = "completed"
    /\ StageOf(deployments[2]) = 2

\* the stored records of the type, oldest first
AttemptsOf(docType) == SelectSeq(generatedDocuments, LAMBDA doc : doc.documentType = docType)

\* the record of the most recent attempt of the type
LatestAttempt(docType) == AttemptsOf(docType)[Len(AttemptsOf(docType))]

(* C28: after any sequence of generate-documents batches for one analysis the
   card of each document type shows the outcome of the most recent attempt of
   that type: Download when it was stored as generated, 'Generation Failed'
   when it was stored as failed or rate_limited. *)
C28_CardShowsLatestAttempt ==
    pc = "shown" =>
        \A docType \in DocumentTypeNames :
            AttemptsOf(docType) # <<>> =>
                CardButton(docType) =
                    (IF LatestAttempt(docType).status = "generated" THEN "Download"
                     ELSE "Generation Failed")


\* a and b agree on every field but the named one
SameButField(a, b, field) ==
    /\ a.name = b.name /\ a.type = b.type
    /\ a.storage_size = b.storage_size /\ a.bandwidth = b.bandwidth
    /\ a.customConfig = b.customConfig
    /\ field # "count" => a.count = b.count
    /\ field # "instance_type" => a.instance_type = b.instance_type

(* C29: after any sequence of handleServiceUpdate edits every service's count
   is an integer in 1..100 (an empty, non-numeric or zero entry becomes 1);
   an edit changes only the edited field of the edited service; the services
   prop keeps its length and hasChanges is true exactly when the edited list
   differs from it. *)
C29_EditsKeepCountsInBounds ==
    pc = "editing" =>
        /\ \A k \in DOMAIN adjustedServices :
             adjustedServices[k].count \in {N(n) : n \in 1..100}
        /\ Len(adjustedServices) = Len(services)
        /\ lastEdit.index # 0 =>
             \A k \in DOMAIN adjustedServices :
                IF k = lastEdit.index
                THEN SameButField(adjustedServices[k], lastEdit.before[k], lastEdit.field)
                ELSE adjustedServices[k] = lastEdit.before[k]
        /\ hasChanges <=> adjustedServices # services


(* C30: in the dashboard currentStep never decreases; it becomes 2 only in
   the step in which an analysis completes and 3 only in the step in which a
   deployment is created; no deployment request is sent before an analysis
   has completed; at most one analysis request is in flight or has completed
   successfully. *)
C30_WorkflowOnlyMovesForward ==
    /\ [][/\ currentStep' >= currentStep
          /\ (currentStep' # currentStep /\ currentStep' = 2) =>
                (analysisMutation = "pending" /\ analysisMutation' = "success")
          /\ (currentStep' # currentStep /\ currentStep' = 3) =>
                (deploymentMutation = "pending" /\ deploymentMutation' = "success")
          /\ requests'.deployment > requests.deployment => requests.analysed > 0
          /\ requests'.analysis > requests.analysis =>
                (analysisMutation # "pending" /\ requests.analysed = 0)]_vars
    /\ [](/\ currentStep \in 1..3
          /\ requests.analysed <= 1
          /\ currentStep >= 2 <=> requests.analysed > 0
          /\ currentStep = 3 <=> deploymentData)

\* a second analysis request succeeded after the first one failed, and a
\* deployment was created after a rejected one
C30_Witness ==
    /\ pc = "dashboard"
    /\ currentStep = 3
    /\ requests.analysis = 2 /\ requests.analysed = 1
    /\ requests.deployment = 2
    /\ deploymentMutation = "success"

====
